---------------------------- MODULE Spec2Model ----------------------------
(***************************************************************************)
(* A model of app.py: the LLMManager setup orchestrator (auto_setup and    *)
(* the steps it calls, the setup lock, the progress record and its reader  *)
(* setup_status), the rate_limit decorator, and the process_pdf/download   *)
(* request pipeline.                                                       *)
(*                                                                         *)
(* Text is modelled as a sequence of runs [c |-> chunk, n |-> length]: a   *)
(* run is a chunk of ordinary characters (or a prefix of it, when n is     *)
(* smaller than the chunk), or a single special character ("<", ">", NUL,  *)
(* " ").  Lengths are therefore exact, and truncation, escaping and        *)
(* stripping are computed rather than assumed.                             *)
(***************************************************************************)
EXTENDS Integers, Sequences, FiniteSets, TLC

(***************************************************************************)
(* Bounds of the model.                                                    *)
(***************************************************************************)
MaxThreads == 2
\* auto_setup triggers (one daemon thread each) in a run

MaxPullLines == 2
\* lines read from the pull subprocess in one download_model call

MaxCalls == 12
\* rate-limited requests of the one client in a run

MaxWorkers == 2
\* request threads: each handles one request at a time

MaxRequests == 2

MaxInstalls == 2
\* /process_pdf requests in a run

(***************************************************************************)
(* Program constants.                                                      *)
(***************************************************************************)
RATE_LIMIT == 10

RATE_WINDOW == 60

StartPolls == 30

StageMax == 50

MessageMax == 200

ErrorMax == 200

ModelNameMax == 50

FilenameMax == 255

ResponseMax == 1000000

PullCeiling == 1800

WaitTimeout == 60

MessageEvery == 2

ScriptSizeMax == 1000000

ScriptSizeMin == 100

InstallErrorMax == 100

\* the age in seconds over which cleanup_old_files removes a file
Retention == 3600

(***************************************************************************)
(* Text.                                                                   *)
(***************************************************************************)
T(s) == <<[c |-> s, n |-> Len(s)]>>

NUL == "NUL"

None == <<[c |-> "None", n |-> 0]>>
\* Python's None where a str may also stand: no str has a run of length 0

RECURSIVE TextLen(_)
TextLen(t) == IF t = <<>> THEN 0 ELSE Head(t).n + TextLen(Tail(t))

RECURSIVE Slice(_, _)
\* text[:k]
Slice(t, k) ==
    IF t = <<>> \/ k <= 0 THEN <<>>
    ELSE IF Head(t).n <= k THEN <<Head(t)>> \o Slice(Tail(t), k - Head(t).n)
    ELSE <<[c |-> Head(t).c, n |-> k]>>

RECURSIVE Replace(_, _, _)
\* text.replace(old, new) for a single character old
Replace(t, old, new) ==
    IF t = <<>> THEN <<>>
    ELSE (IF Head(t).c = old THEN new ELSE <<Head(t)>>) \o Replace(Tail(t), old, new)

\* each assignment to `text` is a one-element set, so that its value is
\* computed once
sanitize_input(text, max_length) ==
    LET cut   == { Slice(text, max_length) }
        nonul == { Replace(t, NUL, <<>>) : t \in cut }
        nolt  == { Replace(t, "<", T("&lt;")) : t \in nonul }
        nogt  == { Replace(t, ">", T("&gt;")) : t \in nolt }
    IN  CHOOSE t \in nogt : TRUE

\* one special character
Ch(c) == <<[c |-> c, n |-> 1]>>

NL == "NL"

IsSpace(r) == r.c \in {" ", NL}

RECURSIVE LStrip(_)
LStrip(t) == IF t # <<>> /\ IsSpace(Head(t)) THEN LStrip(Tail(t)) ELSE t

RECURSIVE RStrip(_)
RStrip(t) ==
    IF t # <<>> /\ IsSpace(t[Len(t)]) THEN RStrip(SubSeq(t, 1, Len(t) - 1)) ELSE t

Strip(t) == RStrip(LStrip(t))

LowerChunk(c) ==
    CASE c = "LLAMA2"  -> "llama2"
      [] c = "Mistral" -> "mistral"
      [] c = "PDF"     -> "pdf"
      [] c = "Pulling" -> "pulling"
      [] OTHER         -> c

Lower(t) == [i \in 1..Len(t) |-> [c |-> LowerChunk(t[i].c), n |-> t[i].n]]

StartsWith(t, p) == Len(t) >= Len(p) /\ SubSeq(t, 1, Len(p)) = p

\* Python's `a in b` for strings, at the granularity of runs
Contains(b, a) ==
    \E i \in 1..(Len(b) + 1) :
        i + Len(a) - 1 <= Len(b) /\ SubSeq(b, i, i + Len(a) - 1) = a

(***************************************************************************)
(* Model identifiers.                                                      *)
(***************************************************************************)
ALLOWED_MODELS ==
    { T("llama2"), T("llama2") \o T(":") \o T("7b"), T("llama2") \o T(":") \o T("13b"),
      T("llama2") \o T(":") \o T("70b"),
      T("llama3"), T("llama3") \o T(":") \o T("8b"), T("llama3") \o T(".2"),
      T("llama3") \o T(".2") \o T(":") \o T("1b"), T("llama3") \o T(".2") \o T(":") \o T("3b"),
      T("mistral"), T("mistral") \o T(":") \o T("7b"),
      T("phi"), T("phi") \o T(":") \o T("2.7b"), T("phi") \o T("3"),
      T("codellama"), T("codellama") \o T(":") \o T("7b"),
      T("gemma"), T("gemma") \o T(":") \o T("2b"), T("gemma") \o T(":") \o T("7b") }

validate_model_name(model_name) ==
    IF model_name = <<>> \/ model_name = None THEN FALSE
    ELSE LET m == Strip(Lower(model_name))
         IN  IF TextLen(m) > ModelNameMax THEN FALSE
             ELSE \E allowed \in ALLOWED_MODELS :
                     m = allowed \/ StartsWith(m, allowed \o T(":"))

\* model names a caller posts to /auto_setup
RequestedModels ==
    { T("llama2"), T("mistral") \o T(":") \o T("7b"), T("llama2") \o T(";") \o T("rm") }

\* what the engine's /api/tags may list
Catalogs == { {}, {T("llama2") \o T(":") \o T("latest")} }


(***************************************************************************)
(* State.                                                                  *)
(***************************************************************************)
VARIABLES
    config,          \* LLMManager.config
    config_file,     \* the content of llm_config.json
    setup_lock,      \* LLMManager.setup_lock: 0 (free) or the thread holding it
    setup_progress,  \* the dict LLMManager.setup_progress currently refers to
    ollama_process,  \* LLMManager.ollama_process: "None", or the handle's process state
    spawned,         \* `ollama serve` processes launched so far
    engine_http,     \* whether GET /api/tags is answered ("up") or refused ("down")
    catalog,         \* the model names the engine lists
    pc,              \* where each auto_setup thread stands
    ack,             \* what the /auto_setup route answered its trigger
    ret,             \* what auto_setup returned
    loc,             \* the locals of each running auto_setup call, and its history
    rd_pc,           \* where the setup_status request stands
    rd_k,            \* the next field its serialisation reads
    rd_ref,          \* the dict it refers to, once that is no longer the current one
    rd_live,         \* whether the dict it refers to is still the current one
    rd_snap,         \* the fields it has read
    rd_cands,        \* the values its dict has held that agree with the fields read
    rd_status        \* what get_status() returned to it

setupVars == <<config, config_file, setup_lock, setup_progress, ollama_process, spawned,
               engine_http, catalog, pc, ack, ret, loc>>

readerVars == <<rd_pc, rd_k, rd_ref, rd_live, rd_snap, rd_cands, rd_status>>

VARIABLES
    request_times,   \* request_times[client_ip], or absent
    now,             \* what time.time() returns
    rl_pc,           \* where each request thread stands in decorated_function
    rl_time,         \* its current_time
    rl_filtered,     \* the list its comprehension has built and not yet stored
    rl_last,         \* how its last request ended, and what had been admitted then
    rl_calls,        \* requests made so far
    admitted         \* the current_time of every request that reached f, in order

rateVars == <<request_times, now, rl_pc, rl_time, rl_filtered, rl_last, rl_calls,
              admitted>>

VARIABLES
    uploads,         \* the files in UPLOAD_FOLDER
    outputs,         \* the files in OUTPUT_FOLDER: name -> content
    tokens,          \* secrets.token_hex(8) values drawn so far
    pp_calls,        \* /process_pdf requests made so far
    pp_pc,           \* where each /process_pdf request thread stands
    pp_loc,          \* its request and locals
    dl_pc,           \* where each /download request thread stands
    dl_loc,          \* its locals and its answer
    written,         \* what process_pdf wrote under each output name it returned
    served           \* how often /download answered each name with the file

pipeVars == <<uploads, outputs, tokens, pp_calls, pp_pc, pp_loc, dl_pc, dl_loc, written, served>>

VARIABLES
    dm_pc,           \* where a download_model call made on its own stands
    dm_loc,          \* its model_name, start_time, last_update and the start of its wait
    dm_ret,          \* what it returned
    pull_proc,       \* the `ollama pull` subprocess: its state, its argument, its launch
    pull_pipe        \* its stdout: open or closed, the line waiting in it, lines written

pullVars == <<dm_pc, dm_loc, dm_ret, pull_proc, pull_pipe>>

VARIABLES
    sm_resp          \* the answer of the last POST /set_model

routeVars == <<sm_resp>>

VARIABLES
    in_pc,           \* where an install_ollama call stands
    in_ret,          \* what it returned
    in_calls,        \* the calls made so far
    in_wrote,        \* whether curl succeeded and wrote the install script in this call
    tmp              \* the files in /tmp, each with its size in bytes

installVars == <<in_pc, in_ret, in_calls, in_wrote, tmp>>

VARIABLES
    app_pc,          \* the process: running, inside signal_handler, exited
    signals          \* the signals sent to the engine process by cleanup

shutVars == <<app_pc, signals>>

VARIABLES
    mtime            \* os.path.getmtime of every file in UPLOAD_FOLDER and OUTPUT_FOLDER

fileVars == <<mtime>>

\* what the actions of one component leave alone
notSetup == <<rateVars, pipeVars, pullVars, routeVars, installVars, shutVars,
             fileVars>>

\* what the pull of a setup sequence leaves alone
notSequencePull == <<rateVars, pipeVars, routeVars, installVars, shutVars, fileVars,
                     dm_pc, dm_loc,
                     dm_ret, pull_pipe>>

notRate == <<setupVars, readerVars, pipeVars, pullVars, routeVars, installVars,
            shutVars, fileVars>>

notPipe == <<setupVars, readerVars, rateVars, pullVars, routeVars, installVars,
            shutVars>>

Threads == 1..MaxThreads

CriticalPcs == {"probe", "start", "spawn", "poll", "model_check", "download",
                "pull_popen", "pull_read", "mark"}

Fields == <<"stage", "message", "progress", "error">>

EmptySnap == [stage |-> <<>>, message |-> <<>>, progress |-> -1, error |-> <<>>]

NoStatus == [ollama_installed |-> FALSE, ollama_running |-> FALSE,
             model_downloaded |-> FALSE, model_name |-> <<>>,
             setup_complete |-> FALSE, ready |-> FALSE]

\* the keys of the configuration dict
Keys == {"ollama_installed", "ollama_path", "model_name", "model_downloaded",
         "setup_complete"}

\* a configuration dict: `keys` are the keys it has; the entry of a key it
\* does not have is not there to be read
DefaultConfig == [ollama_installed |-> FALSE, ollama_path |-> "None",
                  model_name |-> T("llama2"), model_downloaded |-> FALSE,
                  setup_complete |-> FALSE, keys |-> Keys]

\* config[key] = value
Put(cfg, key, value) == [cfg EXCEPT ![key] = value, !.keys = @ \cup {key}]

NoProcess == [state |-> "none", code |-> 0, argv |-> None, at |-> 0]

IdleProgress == [stage |-> T("idle"), message |-> <<>>, progress |-> 0, error |-> None]

\* arg: model_name; i: the loop variable of start_ollama_service; lines: lines read
\* from the pull subprocess; trace: the steps executed; up: whether the engine's
\* endpoint was up at any time since the lock was taken; during: the threads inside
\* the lock when the trigger arrived; s0: `spawned` when start_ollama_service began
NoLocals == [arg |-> <<>>, i |-> 0, lines |-> 0, trace |-> {}, up |-> FALSE,
             during |-> {}, s0 |-> 0]

\* LLMManager.load_config: what __init__ makes of the file
load_config(file) ==
    IF ~file.present THEN DefaultConfig
    ELSE IF file.json = "unparseable" THEN DefaultConfig   \* JSONDecodeError
    ELSE IF file.json # "object" THEN DefaultConfig        \* ValueError
    ELSE IF /\ "model_name" \in file.content.keys
            /\ ~validate_model_name(file.content.model_name)
         THEN [file.content EXCEPT !.model_name = T("llama2")]
         ELSE file.content

NoFile == [present |-> FALSE, json |-> "object", content |-> DefaultConfig]

\* the key sets of the JSON objects llm_config.json may hold at startup
DiskKeys == { Keys, Keys \ {"model_name"}, Keys \ {"setup_complete"}, {} }

\* the model_name entries it may hold: an identifier, a string that is none,
\* a value that is no string
DiskNames == { T("mistral") \o T(":") \o T("7b"), T("llama2") \o T(";") \o T("rm"), None }

DiskObjects ==
    { [DefaultConfig EXCEPT !.keys = k,
                            !.model_name = IF "model_name" \in k THEN n ELSE None] :
          k \in DiskKeys, n \in DiskNames }

\* llm_config.json at startup: missing, not JSON, JSON but no object, an object
DiskStates ==
    {NoFile}
    \cup { [present |-> TRUE, json |-> j, content |-> DefaultConfig] :
               j \in {"unparseable", "array"} }
    \cup { [present |-> TRUE, json |-> "object", content |-> c] : c \in DiskObjects }

\* LLMManager.__init__ but for the configuration
ManagerInit ==
    /\ setup_lock = 0
    /\ setup_progress = IdleProgress
    /\ ollama_process = "None"
    /\ spawned = 0
    /\ engine_http \in {"down", "up"}
    /\ catalog \in Catalogs
    /\ pc = [t \in Threads |-> "unborn"]
    /\ ack = [t \in Threads |-> "none"]
    /\ ret = [t \in Threads |-> "none"]
    /\ loc = [t \in Threads |-> NoLocals]

\* a first start: no llm_config.json yet
SetupInit ==
    /\ config_file = NoFile
    /\ config = load_config(config_file)
    /\ ManagerInit

\* a start over whatever llm_config.json holds
BootInit ==
    /\ config_file \in DiskStates
    /\ config = load_config(config_file)
    /\ ManagerInit

RouteInit == sm_resp = "none"

ReaderInit ==
    /\ rd_pc = "idle"
    /\ rd_k = 1
    /\ rd_ref = EmptySnap
    /\ rd_live = FALSE
    /\ rd_snap = EmptySnap
    /\ rd_cands = {}
    /\ rd_status = NoStatus

(***************************************************************************)
(* The progress record.  update_progress binds setup_progress to a new     *)
(* dict; the other writers assign one key of the current dict.  A          *)
(* setup_status request that holds a reference sees the second kind of     *)
(* write and not the first.                                                *)
(***************************************************************************)
Min(a, b) == IF a < b THEN a ELSE b

Max(a, b) == IF a > b THEN a ELSE b

update_progress(stage, message, progress) ==
    [stage    |-> sanitize_input(stage, StageMax),
     message  |-> sanitize_input(message, MessageMax),
     progress |-> Max(0, Min(100, progress)),
     error    |-> None]

Agrees(v) == \A k \in 1..(rd_k - 1) : v[Fields[k]] = rd_snap[Fields[k]]

\* self.setup_progress = {...}
BindProgress(new) ==
    /\ setup_progress' = new
    /\ IF rd_pc = "reading" /\ rd_live
       THEN rd_live' = FALSE /\ rd_ref' = setup_progress
       ELSE UNCHANGED <<rd_live, rd_ref>>
    /\ UNCHANGED <<rd_cands, rd_pc, rd_k, rd_snap, rd_status>>

\* self.setup_progress[key] = value
AssignProgress(key, value) ==
    LET new == [setup_progress EXCEPT ![key] = value]
    IN  /\ setup_progress' = new
        /\ IF rd_pc = "reading" /\ rd_live /\ Agrees(new)
           THEN rd_cands' = rd_cands \cup {new}
           ELSE UNCHANGED rd_cands
        /\ UNCHANGED <<rd_live, rd_ref, rd_pc, rd_k, rd_snap, rd_status>>

NoProgressWrite == UNCHANGED <<setup_progress, readerVars>>

\* str(e)[:200]
ErrorText(e) == Slice(e, ErrorMax)

save_config(cfg) == config_file' = [present |-> TRUE, json |-> "object", content |-> cfg]

(***************************************************************************)
(* The /auto_setup route and LLMManager.auto_setup.                        *)
(***************************************************************************)
\* the thread goes on inside auto_setup
Goto(t, to, locals) ==
    /\ pc' = [pc EXCEPT ![t] = to]
    /\ loc' = [loc EXCEPT ![t] = locals]
    /\ UNCHANGED ret

\* `return`: the call's locals are gone
Return(t, value) ==
    /\ pc' = [pc EXCEPT ![t] = "done"]
    /\ ret' = [ret EXCEPT ![t] = value]
    /\ loc' = [loc EXCEPT ![t] = NoLocals]

\* a faulty variant: the return leaves the lock held
Finish_holding(t, value) == Return(t, value) /\ UNCHANGED setup_lock

\* `return` inside `with self.setup_lock`
Finish(t, value) == Return(t, value) /\ setup_lock' = 0

Did(t, what) == [loc[t] EXCEPT !.trace = @ \cup what]

\* a faulty variant: the lock is taken without looking at who holds it
LockFree_unchecked == TRUE

LockFree == setup_lock = 0

\* a faulty variant: the handle of the running process is not looked at
AlreadyRunning_never == FALSE

AlreadyRunning == ollama_process = "alive"

\* a faulty variant: a poll counts as answered whatever came back
PollSucceeded_always(http, is200) == TRUE

\* requests.get(...) returned and response.status_code == 200
PollSucceeded(http, is200) == http = "up" /\ is200

\* a faulty variant: a trigger that arrives during a sequence is turned away
auto_setup_route_rejecting(t, m) ==
    /\ pc[t] = "unborn"
    /\ \A u \in Threads : u < t => pc[u] # "unborn"
    /\ LET busy == {u \in Threads : pc[u] \in CriticalPcs}
       IN  IF validate_model_name(m) /\ busy = {}
           THEN /\ pc' = [pc EXCEPT ![t] = "validate"]
                /\ loc' = [loc EXCEPT ![t].arg = m]
                /\ ack' = [ack EXCEPT ![t] = "started"]
           ELSE /\ pc' = [pc EXCEPT ![t] = "rejected"]
                /\ loc' = [loc EXCEPT ![t].during = busy]
                /\ ack' = [ack EXCEPT ![t] = "400"]
    /\ NoProgressWrite
    /\ UNCHANGED <<config, config_file, setup_lock, ollama_process, spawned,
                   engine_http, catalog, ret>>
    /\ UNCHANGED notSetup

\* a faulty variant: the request is answered once the setup lock is free
auto_setup_route_waiting(t, m) ==
    /\ pc[t] = "unborn"
    /\ \A u \in Threads : u < t => pc[u] # "unborn"
    /\ setup_lock = 0
    /\ IF validate_model_name(m)
       THEN /\ pc' = [pc EXCEPT ![t] = "validate"]
            /\ loc' = [loc EXCEPT ![t].arg = m,
                                  ![t].during = {u \in Threads : pc[u] \in CriticalPcs}]
            /\ ack' = [ack EXCEPT ![t] = "started"]
       ELSE /\ pc' = [pc EXCEPT ![t] = "rejected"]
            /\ ack' = [ack EXCEPT ![t] = "400"]
            /\ UNCHANGED loc
    /\ NoProgressWrite
    /\ UNCHANGED <<config, config_file, setup_lock, ollama_process, spawned,
                   engine_http, catalog, ret>>
    /\ UNCHANGED notSetup

auto_setup_route(t, m) ==
    /\ pc[t] = "unborn"
    /\ \A u \in Threads : u < t => pc[u] # "unborn"
    /\ IF validate_model_name(m)
       THEN /\ pc' = [pc EXCEPT ![t] = "validate"]
            /\ loc' = [loc EXCEPT ![t].arg = m,
                                  ![t].during = {u \in Threads : pc[u] \in CriticalPcs}]
            /\ ack' = [ack EXCEPT ![t] = "started"]
       ELSE /\ pc' = [pc EXCEPT ![t] = "rejected"]
            /\ ack' = [ack EXCEPT ![t] = "400"]
            /\ UNCHANGED loc
    /\ NoProgressWrite
    /\ UNCHANGED <<config, config_file, setup_lock, ollama_process, spawned,
                   engine_http, catalog, ret>>
    /\ UNCHANGED notSetup

as_validate(t) ==
    /\ pc[t] = "validate"
    /\ IF validate_model_name(loc[t].arg)
       THEN /\ Goto(t, "lock", Did(t, {"validated"}))
            /\ NoProgressWrite
       ELSE /\ AssignProgress("error", T("Invalid model name"))
            /\ Return(t, "False")
    /\ UNCHANGED <<config, config_file, setup_lock, ollama_process, spawned,
                   engine_http, catalog, ack>>
    /\ UNCHANGED notSetup

as_lock(t) ==
    /\ pc[t] = "lock"
    /\ LockFree
    /\ setup_lock' = t
    /\ Goto(t, "probe", [loc[t] EXCEPT !.up = (engine_http = "up")])
    /\ NoProgressWrite
    /\ UNCHANGED <<config, config_file, ollama_process, spawned, engine_http,
                   catalog, ack>>
    /\ UNCHANGED notSetup

\* a faulty variant: a failed probe is reported and the sequence goes on
as_probe_lenient(t) ==
    /\ pc[t] = "probe"
    /\ \E found \in BOOLEAN, path \in {"None", "/usr/local/bin/ollama"} :
        IF found
        THEN /\ config' = Put(Put(config, "ollama_installed", TRUE), "ollama_path", path)
             /\ save_config(config')
             /\ BindProgress(update_progress(T("checking"), T("Ollama detected"), 20))
             /\ Goto(t, "start", Did(t, {"probe"}))
        ELSE /\ BindProgress(update_progress(T("error"),
                    T("Ollama not installed. Please run ./setup.sh first"), 0))
             /\ Goto(t, "start", loc[t])
             /\ UNCHANGED <<config, config_file>>
    /\ UNCHANGED <<setup_lock, ollama_process, spawned, engine_http, catalog, ack>>
    /\ UNCHANGED notSetup

\* step 1: check_ollama_installed, then the progress write of either branch
as_probe(t) ==
    /\ pc[t] = "probe"
    /\ \E found \in BOOLEAN, path \in {"None", "/usr/local/bin/ollama"} :
        IF found
        THEN /\ config' = Put(Put(config, "ollama_installed", TRUE), "ollama_path", path)
             /\ save_config(config')
             /\ BindProgress(update_progress(T("checking"), T("Ollama detected"), 20))
             /\ Goto(t, "start", Did(t, {"probe"}))
             /\ UNCHANGED setup_lock
        ELSE /\ BindProgress(update_progress(T("error"),
                    T("Ollama not installed. Please run ./setup.sh first"), 0))
             /\ Finish(t, "False")
             /\ UNCHANGED <<config, config_file>>
    /\ UNCHANGED <<ollama_process, spawned, engine_http, catalog, ack>>
    /\ UNCHANGED notSetup

(***************************************************************************)
(* LLMManager.start_ollama_service, as step 2 of auto_setup.               *)
(***************************************************************************)
\* what the engine process may have written to stderr before it exited
EngineStderr == { T("Error: listen tcp 127.0.0.1:11434: bind: address already in use") }

start_entry(t) ==
    /\ pc[t] = "start"
    /\ LET here == [Did(t, {IF ollama_process = "alive" THEN "entered_alive"
                                                        ELSE "entered_dead"})
                       EXCEPT !.s0 = spawned]
       IN  IF AlreadyRunning
           THEN /\ Goto(t, "model_check", [here EXCEPT !.trace = @ \cup {"started"}])
                /\ NoProgressWrite
           ELSE /\ BindProgress(update_progress(T("starting"),
                        T("Starting Ollama service..."), 60))
                /\ Goto(t, "spawn", here)
    /\ UNCHANGED <<config, config_file, setup_lock, ollama_process, spawned,
                   engine_http, catalog, ack>>
    /\ UNCHANGED notSetup

\* pkill -9 ollama, then Popen(['ollama', 'serve'])
start_spawn(t) ==
    /\ pc[t] = "spawn"
    /\ \E launched \in BOOLEAN :
        IF launched
        THEN /\ ollama_process' = "alive"
             /\ spawned' = spawned + 1
             /\ Goto(t, "poll", [Did(t, {"pkill", "spawn"}) EXCEPT !.i = 0])
             /\ NoProgressWrite
             /\ UNCHANGED setup_lock
        ELSE /\ AssignProgress("error",
                    ErrorText(T("[Errno 2] No such file or directory: 'ollama'")))
             /\ Finish(t, "False")
             /\ UNCHANGED <<ollama_process, spawned>>
    /\ UNCHANGED <<config, config_file, engine_http, catalog, ack>>
    /\ UNCHANGED notSetup

\* one iteration of `for i in range(30)`
start_poll(t) ==
    /\ pc[t] = "poll"
    /\ loc[t].i < StartPolls
    /\ \E is200 \in BOOLEAN :
        IF PollSucceeded(engine_http, is200)
        THEN /\ BindProgress(update_progress(T("started"), T("Ollama service running"), 70))
             /\ Goto(t, "model_check", [Did(t, {"started"}) EXCEPT !.i = 0])
        ELSE /\ Goto(t, "poll", [loc[t] EXCEPT !.i = @ + 1])
             /\ NoProgressWrite
    /\ UNCHANGED <<config, config_file, setup_lock, ollama_process, spawned,
                   engine_http, catalog, ack>>
    /\ UNCHANGED notSetup

\* after the loop: the process died, or it did not answer in time
start_timeout(t) ==
    /\ pc[t] = "poll"
    /\ loc[t].i = StartPolls
    /\ IF ollama_process = "exited"
       THEN \E stderr \in EngineStderr :
                AssignProgress("error",
                    ErrorText(T("Ollama service failed to start: ")
                              \o Slice(Slice(stderr, 500), 200)))
       ELSE NoProgressWrite
    /\ Finish(t, "False")
    /\ UNCHANGED <<config, config_file, ollama_process, spawned, engine_http,
                   catalog, ack>>
    /\ UNCHANGED notSetup

(***************************************************************************)
(* Step 3: check_model_downloaded, download_model; and the completion.     *)
(***************************************************************************)
PullLines == { T("pulling") \o T(" ") \o T("manifest") \o Ch(NL),
               T("verifying") \o T(" ") \o T("sha256") \o Ch(NL) }

as_model_check(t) ==
    /\ pc[t] = "model_check"
    /\ \E resp \in {"ok", "not200", "malformed"} :
        IF engine_http = "up" /\ resp = "malformed"
        THEN \* an exception check_model_downloaded does not catch: auto_setup's handler
             /\ AssignProgress("error", ErrorText(T("'list' object has no attribute 'get'")))
             /\ Finish(t, "False")
             /\ UNCHANGED <<config, config_file>>
        ELSE IF /\ validate_model_name(loc[t].arg)
                /\ engine_http = "up"
                /\ resp = "ok"
                /\ \E name \in catalog : Contains(name, loc[t].arg)
        THEN /\ config' = Put(config, "model_downloaded", TRUE)
             /\ save_config(config')
             /\ BindProgress(update_progress(T("checking"),
                    T("Model ") \o loc[t].arg \o T(" already downloaded"), 90))
             /\ Goto(t, "mark", Did(t, {"model_check", "model_ready"}))
             /\ UNCHANGED setup_lock
        ELSE /\ Goto(t, "download", Did(t, {"model_check"}))
             /\ NoProgressWrite
             /\ UNCHANGED <<config, config_file, setup_lock>>
    /\ UNCHANGED <<ollama_process, spawned, engine_http, catalog, ack>>
    /\ UNCHANGED notSetup

\* download_model up to its first progress write
download_model_begin(t) ==
    /\ pc[t] = "download"
    /\ IF validate_model_name(loc[t].arg)
       THEN /\ BindProgress(update_progress(T("downloading"),
                    T("Downloading model ") \o loc[t].arg \o T("..."), 80))
            /\ Goto(t, "pull_popen", loc[t])
            /\ UNCHANGED setup_lock
       ELSE /\ AssignProgress("error", T("Invalid model name"))
            /\ Finish(t, "False")
    /\ UNCHANGED <<config, config_file, ollama_process, spawned, engine_http,
                   catalog, ack>>
    /\ UNCHANGED notSetup

\* Popen(['ollama', 'pull', model_name])
download_model_popen(t) ==
    /\ pc[t] = "pull_popen"
    /\ \E launched \in BOOLEAN :
        IF launched
        THEN /\ Goto(t, "pull_read", [Did(t, {"pull"}) EXCEPT !.lines = 0])
             /\ pull_proc' = [state |-> "running", code |-> 0, argv |-> loc[t].arg,
                              at |-> now]
             /\ NoProgressWrite
             /\ UNCHANGED setup_lock
        ELSE /\ AssignProgress("error",
                    ErrorText(T("[Errno 2] No such file or directory: 'ollama'")))
             /\ Finish(t, "False")
             /\ UNCHANGED pull_proc
    /\ UNCHANGED <<config, config_file, ollama_process, spawned, engine_http,
                   catalog, ack>>
    /\ UNCHANGED notSequencePull

\* one iteration of `for line in process.stdout`
download_model_line(t) ==
    /\ pc[t] = "pull_read"
    /\ loc[t].lines < MaxPullLines
    /\ \E line \in PullLines, late \in BOOLEAN, due \in BOOLEAN :
        IF late
        THEN \* process.kill(): the subprocess is gone
             /\ pull_proc' = NoProcess
             /\ AssignProgress("error",
                    ErrorText(T("Download timeout (30 minutes exceeded)")))
             /\ Finish(t, "False")
        ELSE /\ Goto(t, "pull_read", [loc[t] EXCEPT !.lines = @ + 1])
             /\ UNCHANGED <<setup_lock, pull_proc>>
             /\ IF due /\ (Contains(Lower(line), T("pulling"))
                           \/ Contains(Lower(line), T("downloading")))
                THEN AssignProgress("message",
                         sanitize_input(Slice(Strip(line), 200), MessageMax))
                ELSE NoProgressWrite
    /\ UNCHANGED <<config, config_file, ollama_process, spawned, engine_http,
                   catalog, ack>>
    /\ UNCHANGED notSequencePull

\* a faulty variant: a failed pull undoes the earlier steps
download_model_finish_undoing(t) ==
    /\ pc[t] = "pull_read"
    /\ \E outcome \in {"exit0", "exit1"} :
        IF outcome = "exit0"
        THEN /\ config' = Put(Put(config, "model_name", loc[t].arg),
                                "model_downloaded", TRUE)
             /\ save_config(config')
             /\ catalog' = catalog \cup {loc[t].arg}
             /\ BindProgress(update_progress(T("complete"),
                    T("Model ") \o loc[t].arg \o T(" ready"), 95))
             /\ Goto(t, "mark", [Did(t, {"model_ready"}) EXCEPT !.lines = 0])
             /\ UNCHANGED <<setup_lock, ollama_process>>
        ELSE /\ AssignProgress("error",
                    ErrorText(T("Download failed with exit code 1")))
             /\ Finish(t, "False")
             /\ ollama_process' = "None"
             /\ config' = Put(config, "ollama_installed", FALSE)
             /\ save_config(config')
             /\ UNCHANGED catalog
    /\ pull_proc' = NoProcess
    /\ UNCHANGED <<spawned, engine_http, ack>>
    /\ UNCHANGED notSequencePull

\* the subprocess closed its output: process.wait(timeout=60) and the exit code;
\* a subprocess that exited is gone, one that did not is left running
download_model_finish(t) ==
    /\ pc[t] = "pull_read"
    /\ \E outcome \in {"exit0", "exit1", "wait_timeout"} :
        CASE outcome = "exit0" ->
               /\ config' = Put(Put(config, "model_name", loc[t].arg),
                                  "model_downloaded", TRUE)
               /\ save_config(config')
               /\ catalog' = catalog \cup {loc[t].arg}
               /\ BindProgress(update_progress(T("complete"),
                      T("Model ") \o loc[t].arg \o T(" ready"), 95))
               /\ Goto(t, "mark", [Did(t, {"model_ready"}) EXCEPT !.lines = 0])
               /\ pull_proc' = NoProcess
               /\ UNCHANGED setup_lock
          [] outcome = "exit1" ->
               /\ AssignProgress("error",
                      ErrorText(T("Download failed with exit code 1")))
               /\ Finish(t, "False")
               /\ pull_proc' = NoProcess
               /\ UNCHANGED <<config, config_file, catalog>>
          [] OTHER ->
               \* TimeoutExpired: the subprocess is left as it is
               /\ AssignProgress("error", T("Download timeout"))
               /\ Finish(t, "False")
               /\ UNCHANGED <<config, config_file, catalog, pull_proc>>
    /\ UNCHANGED <<ollama_process, spawned, engine_http, ack>>
    /\ UNCHANGED notSequencePull

\* a faulty variant: completion is reported and the configuration not marked
as_mark_unmarked(t) ==
    /\ pc[t] = "mark"
    /\ BindProgress(update_progress(T("complete"), T("Setup complete - System ready"), 100))
    /\ Finish(t, "True")
    /\ UNCHANGED <<config, config_file, ollama_process, spawned, engine_http, catalog,
                   ack>>
    /\ UNCHANGED notSetup

as_mark(t) ==
    /\ pc[t] = "mark"
    /\ config' = Put(config, "setup_complete", TRUE)
    /\ save_config(config')
    /\ BindProgress(update_progress(T("complete"), T("Setup complete - System ready"), 100))
    /\ Finish(t, "True")
    /\ UNCHANGED <<ollama_process, spawned, engine_http, catalog, ack>>
    /\ UNCHANGED notSetup

(***************************************************************************)
(* The environment: the engine's endpoint comes and goes, its process may  *)
(* exit.                                                                   *)
(***************************************************************************)
engine_changes ==
    /\ engine_http' = IF engine_http = "up" THEN "down" ELSE "up"
    /\ loc' = [t \in Threads |->
                 [loc[t] EXCEPT !.up = @ \/ (pc[t] \in CriticalPcs /\ engine_http' = "up")]]
    /\ NoProgressWrite
    /\ UNCHANGED <<config, config_file, setup_lock, ollama_process, spawned,
                   catalog, pc, ack, ret>>
    /\ UNCHANGED notSetup

process_exits ==
    /\ ollama_process = "alive"
    /\ ollama_process' = "exited"
    /\ NoProgressWrite
    /\ UNCHANGED <<config, config_file, setup_lock, spawned, engine_http,
                   catalog, pc, ack, ret, loc>>
    /\ UNCHANGED notSetup

(***************************************************************************)
(* GET /setup_status: get_status(), then the progress dict is put in the   *)
(* answer by reference and serialised, key by key, with no lock held.      *)
(***************************************************************************)
get_status(running) ==
    [ollama_installed |-> config.ollama_installed,
     ollama_running   |-> running,
     model_downloaded |-> config.model_downloaded,
     model_name       |-> config.model_name,
     setup_complete   |-> IF "setup_complete" \in config.keys THEN config.setup_complete
                          ELSE FALSE,
     ready            |-> config.ollama_installed /\ running /\ config.model_downloaded]

\* the keys get_status reads with config[key]
StatusKeys == {"ollama_installed", "model_downloaded", "model_name"}

setup_status_begin ==
    /\ rd_pc \in {"idle", "returned", "failed"}
    /\ IF StatusKeys \subseteq config.keys
       THEN /\ \E is200 \in BOOLEAN : rd_status' = get_status(engine_http = "up" /\ is200)
            /\ rd_pc' = "reading"
            /\ rd_k' = 1
            /\ rd_live' = TRUE
            /\ rd_ref' = EmptySnap
            /\ rd_snap' = EmptySnap
            /\ rd_cands' = {setup_progress}
       ELSE \* KeyError out of get_status: the request is answered 500
            /\ rd_pc' = "failed"
            /\ rd_status' = NoStatus
            /\ UNCHANGED <<rd_k, rd_live, rd_ref, rd_snap, rd_cands>>
    /\ UNCHANGED setupVars
    /\ UNCHANGED notSetup

setup_status_read ==
    /\ rd_pc = "reading"
    /\ rd_k <= Len(Fields)
    /\ LET f == Fields[rd_k]
           v == IF rd_live THEN setup_progress[f] ELSE rd_ref[f]
       IN  /\ rd_snap' = [rd_snap EXCEPT ![f] = v]
           /\ rd_cands' = {c \in rd_cands : c[f] = v}
    /\ rd_k' = rd_k + 1
    /\ UNCHANGED <<rd_pc, rd_ref, rd_live, rd_status>>
    /\ UNCHANGED setupVars
    /\ UNCHANGED notSetup

setup_status_return ==
    /\ rd_pc = "reading"
    /\ rd_k > Len(Fields)
    /\ rd_pc' = "returned"
    /\ rd_live' = FALSE
    /\ rd_ref' = EmptySnap
    /\ UNCHANGED <<rd_k, rd_snap, rd_cands, rd_status>>
    /\ UNCHANGED setupVars
    /\ UNCHANGED notSetup

(***************************************************************************)
(* POST /set_model.                                                        *)
(***************************************************************************)
\* the model_name of the posted JSON: a string, or None for one that is missing
\* or no string
SetModelNames == RequestedModels \cup {None}

\* a faulty variant: a change of model forgets that a model was downloaded
set_model_resetting(model_name) ==
    /\ IF model_name = None
       THEN /\ sm_resp' = "400 Invalid model name type"
            /\ UNCHANGED <<config, config_file>>
       ELSE IF ~validate_model_name(model_name)
       THEN /\ sm_resp' = "400 Invalid model name"
            /\ UNCHANGED <<config, config_file>>
       ELSE /\ config' = Put(Put(config, "model_name", model_name),
                               "model_downloaded", FALSE)
            /\ save_config(config')
            /\ sm_resp' = "200 success"
    /\ NoProgressWrite
    /\ UNCHANGED <<setup_lock, ollama_process, spawned, engine_http, catalog, pc, ack,
                   ret, loc>>
    /\ UNCHANGED <<rateVars, pipeVars, pullVars, installVars, shutVars, fileVars>>

set_model(model_name) ==
    /\ IF model_name = None
       THEN /\ sm_resp' = "400 Invalid model name type"
            /\ UNCHANGED <<config, config_file>>
       ELSE IF ~validate_model_name(model_name)
       THEN /\ sm_resp' = "400 Invalid model name"
            /\ UNCHANGED <<config, config_file>>
       ELSE /\ config' = Put(config, "model_name", model_name)
            /\ save_config(config')
            /\ sm_resp' = "200 success"
    /\ NoProgressWrite
    /\ UNCHANGED <<setup_lock, ollama_process, spawned, engine_http, catalog, pc, ack,
                   ret, loc>>
    /\ UNCHANGED <<rateVars, pipeVars, pullVars, installVars, shutVars, fileVars>>

(***************************************************************************)
(* The rate_limit decorator.  Requests of one client address; app.run is   *)
(* threaded, so several may be inside the wrapper at once.  request_times  *)
(* is the dict's entry for that address: absent, or a list.                *)
(***************************************************************************)
Workers == 1..MaxWorkers

\* the instants at which requests arrive
SeqTimes == {0, 1, 59, 60, 61, 119, 120, 121}

RaceTimes == {0, 60}

NoRequest == [verdict |-> "none", recent |-> 0]

RateInit ==
    /\ request_times = [present |-> FALSE, times |-> <<>>]
    /\ now = 0
    /\ rl_pc = [w \in Workers |-> "idle"]
    /\ rl_time = [w \in Workers |-> 0]
    /\ rl_filtered = [w \in Workers |-> <<>>]
    /\ rl_last = [w \in Workers |-> NoRequest]
    /\ rl_calls = 0
    /\ admitted = <<>>

RECURSIVE Filter(_, _)
\* [t for t in times if current_time - t < RATE_WINDOW]
Filter(times, current_time) ==
    IF times = <<>> THEN <<>>
    ELSE (IF current_time - Head(times) < RATE_WINDOW THEN <<Head(times)>> ELSE <<>>)
         \o Filter(Tail(times), current_time)

\* a faulty variant: the ceiling is one too high
OverLimit_strict(times) == Len(times) > RATE_LIMIT

\* len(request_times[client_ip]) >= RATE_LIMIT
OverLimit(times) == Len(times) >= RATE_LIMIT

\* the requests admitted so far whose timestamp is less than RATE_WINDOW old at `at`
Recent(at) == Cardinality({k \in 1..Len(admitted) : at - admitted[k] < RATE_WINDOW})

\* current_time = time.time()
rl_enter(w) ==
    /\ rl_pc[w] = "idle"
    /\ rl_calls < MaxCalls
    /\ rl_calls' = rl_calls + 1
    /\ rl_time' = [rl_time EXCEPT ![w] = now]
    /\ rl_pc' = [rl_pc EXCEPT ![w] = "prune"]
    /\ UNCHANGED <<request_times, now, rl_filtered, rl_last, admitted>>
    /\ UNCHANGED notRate

\* the comprehension of "clean old entries"
rl_prune_read(w) ==
    /\ rl_pc[w] = "prune"
    /\ IF request_times.present
       THEN /\ rl_filtered' = [rl_filtered EXCEPT ![w] =
                                   Filter(request_times.times, rl_time[w])]
            /\ rl_pc' = [rl_pc EXCEPT ![w] = "store"]
       ELSE /\ rl_pc' = [rl_pc EXCEPT ![w] = "check"]
            /\ UNCHANGED rl_filtered
    /\ UNCHANGED <<request_times, now, rl_time, rl_last, rl_calls, admitted>>
    /\ UNCHANGED notRate

\* request_times[client_ip] = <the list built>
rl_prune_store(w) ==
    /\ rl_pc[w] = "store"
    /\ request_times' = [present |-> TRUE, times |-> rl_filtered[w]]
    /\ rl_filtered' = [rl_filtered EXCEPT ![w] = <<>>]
    /\ rl_pc' = [rl_pc EXCEPT ![w] = "check"]
    /\ UNCHANGED <<now, rl_time, rl_last, rl_calls, admitted>>
    /\ UNCHANGED notRate

\* "check rate limit": 429, or go on
rl_check(w) ==
    /\ rl_pc[w] = "check"
    /\ IF request_times.present /\ OverLimit(request_times.times)
       THEN /\ rl_pc' = [rl_pc EXCEPT ![w] = "idle"]
            /\ rl_last' = [rl_last EXCEPT ![w] =
                              [verdict |-> "rejected", recent |-> Recent(rl_time[w])]]
       ELSE /\ rl_pc' = [rl_pc EXCEPT ![w] = "create"]
            /\ UNCHANGED rl_last
    /\ UNCHANGED <<request_times, now, rl_time, rl_filtered, rl_calls, admitted>>
    /\ UNCHANGED notRate

\* if client_ip not in request_times: request_times[client_ip] = []
rl_create(w) ==
    /\ rl_pc[w] = "create"
    /\ IF request_times.present
       THEN UNCHANGED request_times
       ELSE request_times' = [present |-> TRUE, times |-> <<>>]
    /\ rl_pc' = [rl_pc EXCEPT ![w] = "append"]
    /\ UNCHANGED <<now, rl_time, rl_filtered, rl_last, rl_calls, admitted>>
    /\ UNCHANGED notRate

\* request_times[client_ip].append(current_time); return f(...)
rl_append(w) ==
    /\ rl_pc[w] = "append"
    /\ request_times' = [request_times EXCEPT !.times = Append(@, rl_time[w])]
    /\ rl_last' = [rl_last EXCEPT ![w] =
                      [verdict |-> "admitted", recent |-> Recent(rl_time[w])]]
    /\ admitted' = Append(admitted, rl_time[w])
    /\ rl_pc' = [rl_pc EXCEPT ![w] = "idle"]
    /\ UNCHANGED <<now, rl_time, rl_filtered, rl_calls>>
    /\ UNCHANGED notRate

Request(w) ==
    \/ rl_prune_read(w)
    \/ rl_prune_store(w)
    \/ rl_check(w)
    \/ rl_create(w)
    \/ rl_append(w)

\* a request arrives when no other is being handled
rl_enter_alone(w) ==
    /\ \A u \in Workers : rl_pc[u] = "idle"
    /\ rl_enter(w)

time_passes(instants) ==
    /\ \E later \in instants : later > now /\ now' = later
    /\ UNCHANGED <<request_times, rl_pc, rl_time, rl_filtered, rl_last, rl_calls,
                   admitted>>
    /\ UNCHANGED notRate

(***************************************************************************)
(* The request pipeline: process_pdf and download.  A folder is a function *)
(* from the file names in it to their contents.  The rate_limit decorator  *)
(* of process_pdf is modelled on its own, above.                           *)
(***************************************************************************)
ALLOWED_EXTENSIONS == {T("pdf")}

NonAscii == "U+0444"
\* a chunk of characters outside ASCII

RECURSIVE LastIndex(_, _)
\* the index of the last run that is the character c, or 0
LastIndex(t, c) ==
    IF t = <<>> THEN 0
    ELSE IF t[Len(t)] = Ch(c)[1] THEN Len(t)
    ELSE LastIndex(SubSeq(t, 1, Len(t) - 1), c)

\* os.path.basename
basename(t) == SubSeq(t, LastIndex(t, "/") + 1, Len(t))

validate_filename(filename) ==
    IF filename = <<>> THEN FALSE
    ELSE LET name == basename(filename)
         IN  IF \/ Contains(name, Ch(".") \o Ch("."))
                \/ Contains(name, Ch("/"))
                \/ Contains(name, Ch("\\"))
             THEN FALSE
             ELSE IF TextLen(name) > FilenameMax THEN FALSE
             ELSE /\ Contains(name, Ch("."))
                  /\ Lower(SubSeq(name, LastIndex(name, ".") + 1, Len(name)))
                         \in ALLOWED_EXTENSIONS

RECURSIVE StripChars(_, _)
\* text.strip(chars) for special characters
StripChars(t, chars) ==
    IF t # <<>> /\ Head(t).c \in chars THEN StripChars(Tail(t), chars)
    ELSE IF t # <<>> /\ t[Len(t)].c \in chars
         THEN StripChars(SubSeq(t, 1, Len(t) - 1), chars)
    ELSE t

\* werkzeug's secure_filename: path separators and blanks become "_", characters
\* outside [A-Za-z0-9_.-] are dropped, leading and trailing "." and "_" are stripped
secure_filename(filename) ==
    LET nosep   == Replace(Replace(filename, "/", Ch("_")), " ", Ch("_"))
        ascii   == Replace(Replace(nosep, NonAscii, <<>>), "\\", <<>>)
    IN  StripChars(ascii, {".", "_"})

EndsWith(t, s) == Len(t) >= Len(s) /\ SubSeq(t, Len(t) - Len(s) + 1, Len(t)) = s

\* Path(filename).stem
Stem(filename) ==
    IF LastIndex(filename, ".") > 1
    THEN SubSeq(filename, 1, LastIndex(filename, ".") - 1)
    ELSE filename

\* secrets.token_hex(8): the k-th value drawn differs from all earlier ones
TokenHex == <<"1f0c5a9e77d2b340", "a93e08c1d46f25b7", "5d7b2e90c8a1f634",
              "c2408f6b1e9d7a53", "e81a3c57f0b2496d", "07f5d2a8b3c6e149">>

token_hex(k) == T(TokenHex[k])

\* the file names a client uploads
UploadNames ==
    { T("report") \o Ch(".") \o T("pdf"),
      Ch(".") \o Ch(".") \o Ch("/") \o T("report") \o Ch(".") \o T("PDF"),
      T(NonAscii) \o Ch(".") \o T("pdf"),
      T("notes") \o Ch(".") \o T("txt"),
      <<>> }

\* size: of the file as saved, against MAX_CONTENT_LENGTH; pdf: what PyPDF2 makes of it
UploadRequests ==
    { r \in [has_file : BOOLEAN, filename : UploadNames, size : {"fits", "oversize"},
             pdf : {"text", "empty", "corrupt"}] :
          r.size = "oversize" => r.pdf = "text" }

\* the 'response' field of the engine's answer to /api/generate
Responses == { T("The document describes a plan."), Ch("<") \o T("b") \o Ch(">") }

NoAnswer == [code |-> 0, body |-> <<>>]

NoUpload == [filepath |-> None, filename |-> <<>>, llm_response |-> <<>>,
             raised |-> FALSE, answer |-> NoAnswer]

NoDownload == [filepath |-> None, answer |-> NoAnswer]

EmptyFolder == [name \in {} |-> <<>>]

PipeInit ==
    /\ uploads = EmptyFolder
    /\ outputs = EmptyFolder
    /\ tokens = 0
    /\ pp_calls = 0
    /\ pp_pc = [w \in Workers |-> "idle"]
    /\ pp_loc = [w \in Workers |-> NoUpload]
    /\ dl_pc = [w \in Workers |-> "idle"]
    /\ dl_loc = [w \in Workers |-> NoDownload]
    /\ written = EmptyFolder
    /\ served = [name \in {} |-> 0]
    /\ mtime = [name \in {} |-> 0]

\* a faulty variant: nothing is removed
safe_remove_file_kept(folder, filepath) == folder

\* the folder after safe_remove_file(filepath): os.remove of a file that exists
safe_remove_file(folder, filepath) ==
    [name \in DOMAIN folder \ {filepath} |-> folder[name]]

\* open(path, 'w') and what was written
WriteFile(folder, path, content) ==
    [name \in DOMAIN folder \cup {path} |-> IF name = path THEN content ELSE folder[name]]

\* the modification times once the folders are as given: a file that was not
\* there is stamped with the clock, one that is gone has none
Stamp(uploads_after, outputs_after) ==
    [name \in DOMAIN uploads_after \cup DOMAIN outputs_after |->
        IF name \in DOMAIN mtime THEN mtime[name] ELSE now]

\* process_pdf returns: only the path it saved under and its answer are kept
Answer(p, filepath, code, body) ==
    /\ pp_pc' = [pp_pc EXCEPT ![p] = "returned"]
    /\ pp_loc' = [pp_loc EXCEPT ![p] =
                     [NoUpload EXCEPT !.filepath = filepath,
                                      !.answer = [code |-> code, body |-> body]]]

\* the request is read, the name checked, and the upload saved
process_pdf_save(p, req) ==
    /\ pp_pc[p] = "idle" /\ dl_pc[p] = "idle"
    /\ pp_calls < MaxRequests
    /\ pp_calls' = pp_calls + 1
    /\ IF ~req.has_file
       THEN /\ Answer(p, None, 400, T("No file provided"))
            /\ UNCHANGED <<uploads, tokens>>
       ELSE IF req.filename = <<>>
       THEN /\ Answer(p, None, 400, T("No file selected"))
            /\ UNCHANGED <<uploads, tokens>>
       ELSE IF ~validate_filename(req.filename)
       THEN /\ Answer(p, None, 400, T("Invalid filename"))
            /\ UNCHANGED <<uploads, tokens>>
       ELSE LET filename == secure_filename(req.filename)
                filepath == token_hex(tokens + 1) \o Ch("_") \o filename
            IN  IF ~EndsWith(Lower(filename), Ch(".") \o T("pdf"))
                THEN /\ Answer(p, None, 400, T("Only PDF files allowed"))
                     /\ UNCHANGED <<uploads, tokens>>
                ELSE /\ tokens' = tokens + 1
                     /\ \E saved \in {"whole", "part", "nothing"} :
                           /\ uploads' =
                                 IF saved = "nothing" THEN uploads
                                 ELSE WriteFile(uploads, filepath,
                                                [size |-> req.size, pdf |-> req.pdf])
                           /\ pp_pc' = [pp_pc EXCEPT ![p] =
                                           IF saved = "whole" THEN "size" ELSE "except"]
                     /\ pp_loc' = [pp_loc EXCEPT ![p] =
                                      [NoUpload EXCEPT !.filepath = filepath,
                                                       !.filename = filename]]
    /\ UNCHANGED <<outputs, dl_pc, dl_loc, written, served>>
    /\ mtime' = Stamp(uploads', outputs')
    /\ UNCHANGED notPipe

\* if os.path.getsize(filepath) > MAX_CONTENT_LENGTH
process_pdf_size(p) ==
    /\ pp_pc[p] = "size"
    /\ LET filepath == pp_loc[p].filepath
       IN  IF filepath \notin DOMAIN uploads
           THEN /\ pp_pc' = [pp_pc EXCEPT ![p] = "except"]
                /\ UNCHANGED <<uploads, pp_loc>>
           ELSE IF uploads[filepath].size = "oversize"
           THEN /\ uploads' = safe_remove_file(uploads, filepath)
                /\ Answer(p, filepath, 400, T("File too large (max 50MB)"))
           ELSE /\ pp_pc' = [pp_pc EXCEPT ![p] = "extract"]
                /\ UNCHANGED <<uploads, pp_loc>>
    /\ UNCHANGED <<outputs, tokens, pp_calls, dl_pc, dl_loc, written, served>>
    /\ mtime' = Stamp(uploads', outputs')
    /\ UNCHANGED notPipe

\* a faulty variant: whatever the extraction gives goes on to the model
process_pdf_extract_lenient(p) ==
    /\ pp_pc[p] = "extract"
    /\ pp_pc' = [pp_pc EXCEPT ![p] = "query"]
    /\ UNCHANGED <<uploads, outputs, tokens, pp_calls, pp_loc, dl_pc, dl_loc, written,
                   served>>
    /\ UNCHANGED fileVars
    /\ UNCHANGED notPipe

\* pdf_text = extract_pdf_text(filepath)
process_pdf_extract(p) ==
    /\ pp_pc[p] = "extract"
    /\ LET filepath == pp_loc[p].filepath
           found    == filepath \in DOMAIN uploads /\ uploads[filepath].pdf = "text"
       IN  /\ pp_pc' = [pp_pc EXCEPT ![p] = IF found THEN "query" ELSE "finally"]
           /\ pp_loc' = [pp_loc EXCEPT ![p].raised = ~found]
    /\ UNCHANGED <<uploads, outputs, tokens, pp_calls, dl_pc, dl_loc, written, served>>
    /\ UNCHANGED fileVars
    /\ UNCHANGED notPipe

\* prompt = read_prompt(); llm_response = query_ollama(prompt, pdf_text)
process_pdf_query(p) ==
    /\ pp_pc[p] = "query"
    /\ \E outcome \in {"answered", "timeout", "failed", "not_json"} :
          IF outcome = "answered"
          THEN \E response \in Responses :
                  /\ pp_loc' = [pp_loc EXCEPT ![p].llm_response =
                                   sanitize_input(response, ResponseMax)]
                  /\ pp_pc' = [pp_pc EXCEPT ![p] = "write"]
          ELSE /\ pp_loc' = [pp_loc EXCEPT ![p].raised = TRUE]
               /\ pp_pc' = [pp_pc EXCEPT ![p] = "finally"]
    /\ UNCHANGED <<uploads, outputs, tokens, pp_calls, dl_pc, dl_loc, written, served>>
    /\ UNCHANGED fileVars
    /\ UNCHANGED notPipe

\* the output file is written and the answer built
process_pdf_write(p) ==
    /\ pp_pc[p] = "write"
    /\ tokens' = tokens + 1
    /\ LET output_filename == Stem(pp_loc[p].filename) \o T("_output.txt")
           output_id       == token_hex(tokens + 1) \o Ch("_") \o output_filename
       IN  \E wrote \in {"whole", "part", "nothing"} :
              /\ outputs' = CASE wrote = "whole" ->
                                     WriteFile(outputs, output_id, pp_loc[p].llm_response)
                              [] wrote = "part" -> WriteFile(outputs, output_id, <<>>)
                              [] OTHER -> outputs
              /\ written' = IF wrote = "whole"
                            THEN WriteFile(written, output_id, pp_loc[p].llm_response)
                            ELSE written
              /\ pp_loc' = [pp_loc EXCEPT
                               ![p].raised = wrote # "whole",
                               ![p].answer = IF wrote = "whole"
                                             THEN [code |-> 200, body |-> output_id]
                                             ELSE NoAnswer]
    /\ pp_pc' = [pp_pc EXCEPT ![p] = "finally"]
    /\ UNCHANGED <<uploads, pp_calls, dl_pc, dl_loc, served>>
    /\ mtime' = Stamp(uploads', outputs')
    /\ UNCHANGED notPipe

\* finally: if filepath: safe_remove_file(filepath)
process_pdf_finally(p) ==
    /\ pp_pc[p] = "finally"
    /\ uploads' = safe_remove_file(uploads, pp_loc[p].filepath)
    /\ IF pp_loc[p].raised
       THEN /\ pp_pc' = [pp_pc EXCEPT ![p] = "except"]
            /\ UNCHANGED pp_loc
       ELSE Answer(p, pp_loc[p].filepath, pp_loc[p].answer.code, pp_loc[p].answer.body)
    /\ UNCHANGED <<outputs, tokens, pp_calls, dl_pc, dl_loc, written, served>>
    /\ mtime' = Stamp(uploads', outputs')
    /\ UNCHANGED notPipe

\* except Exception: the upload is removed and the answer is 500
process_pdf_except(p) ==
    /\ pp_pc[p] = "except"
    /\ uploads' = IF pp_loc[p].filepath # None
                  THEN safe_remove_file(uploads, pp_loc[p].filepath)
                  ELSE uploads
    /\ Answer(p, pp_loc[p].filepath, 500, T("error"))
    /\ UNCHANGED <<outputs, tokens, pp_calls, dl_pc, dl_loc, written, served>>
    /\ mtime' = Stamp(uploads', outputs')
    /\ UNCHANGED notPipe

\* the response has been sent; the thread is free for the next request
process_pdf_close(p) ==
    /\ pp_pc[p] = "returned"
    /\ pp_pc' = [pp_pc EXCEPT ![p] = "idle"]
    /\ pp_loc' = [pp_loc EXCEPT ![p] = NoUpload]
    /\ UNCHANGED <<uploads, outputs, tokens, pp_calls, dl_pc, dl_loc, written, served>>
    /\ UNCHANGED fileVars
    /\ UNCHANGED notPipe

process_pdf(p) ==
    \/ process_pdf_size(p)
    \/ process_pdf_extract(p)
    \/ process_pdf_query(p)
    \/ process_pdf_write(p)
    \/ process_pdf_finally(p)
    \/ process_pdf_except(p)
    \/ process_pdf_close(p)

\* the names a client asks /download for
DownloadNames ==
    DOMAIN written
        \cup { Ch(".") \o Ch(".") \o Ch("/") \o T("llm_config") \o Ch(".") \o T("json"),
               T("unknown_output") \o Ch(".") \o T("txt") }

\* the name is checked and send_file opens the file
download_send(d, filename) ==
    /\ dl_pc[d] = "idle" /\ pp_pc[d] = "idle"
    /\ LET safe_filename == secure_filename(filename)
       IN  IF safe_filename = <<>> \/ safe_filename # filename
           THEN /\ dl_loc' = [dl_loc EXCEPT ![d] =
                                 [NoDownload EXCEPT !.answer =
                                     [code |-> 400, body |-> T("Invalid filename")]]]
                /\ dl_pc' = [dl_pc EXCEPT ![d] = "answered"]
                /\ UNCHANGED served
           ELSE IF safe_filename \notin DOMAIN outputs
           THEN /\ dl_loc' = [dl_loc EXCEPT ![d] =
                                 [NoDownload EXCEPT !.answer =
                                     [code |-> 404, body |-> T("File not found")]]]
                /\ dl_pc' = [dl_pc EXCEPT ![d] = "answered"]
                /\ UNCHANGED served
           ELSE /\ dl_loc' = [dl_loc EXCEPT ![d] =
                                 [filepath |-> safe_filename,
                                  answer   |-> [code |-> 200,
                                                body |-> outputs[safe_filename]]]]
                /\ dl_pc' = [dl_pc EXCEPT ![d] = "sending"]
                /\ served' = WriteFile(served, safe_filename,
                                        IF safe_filename \in DOMAIN served
                                        THEN served[safe_filename] + 1 ELSE 1)
    /\ UNCHANGED <<uploads, outputs, tokens, pp_calls, pp_pc, pp_loc, written>>
    /\ UNCHANGED fileVars
    /\ UNCHANGED notPipe

\* the response is closed; one that carries a file has the call_on_close callback,
\* safe_remove_file(filepath)
download_close(d) ==
    /\ dl_pc[d] \in {"sending", "answered"}
    /\ outputs' = IF dl_pc[d] = "sending"
                  THEN safe_remove_file(outputs, dl_loc[d].filepath)
                  ELSE outputs
    /\ dl_pc' = [dl_pc EXCEPT ![d] = "idle"]
    /\ dl_loc' = [dl_loc EXCEPT ![d] = NoDownload]
    /\ UNCHANGED <<uploads, tokens, pp_calls, pp_pc, pp_loc, written, served>>
    /\ mtime' = Stamp(uploads', outputs')
    /\ UNCHANGED notPipe

(***************************************************************************)
(* LLMManager.install_ollama.  Nothing in app.py calls it; it is checked   *)
(* as the operation it is.  curl writes /tmp/ollama_install.sh, `sh` runs  *)
(* it; a file in /tmp is there until someone removes it.                   *)
(***************************************************************************)
install_script == T("/tmp/ollama_install.sh")

\* sizes curl may leave the script with
ScriptSizes == {50, 5000, 2000000}

InstallInit ==
    /\ in_pc = "idle"
    /\ in_ret = "none"
    /\ in_calls = 0
    /\ in_wrote = FALSE
    /\ tmp = [name \in {} |-> 0]

notInstall == <<setup_lock, ollama_process, spawned, engine_http, catalog, pc, ack, ret,
                loc, rateVars, pipeVars, pullVars, routeVars, shutVars, fileVars>>

in_return(value) ==
    /\ in_pc' = "returned"
    /\ in_ret' = value

\* the call and its first progress write
install_ollama ==
    /\ in_pc \in {"idle", "returned"}
    /\ in_calls < MaxInstalls
    /\ in_calls' = in_calls + 1
    /\ in_pc' = "announce"
    /\ in_ret' = "none"
    /\ in_wrote' = FALSE
    /\ BindProgress(update_progress(T("installing"), T("Installing Ollama..."), 20))
    /\ UNCHANGED <<tmp, config, config_file>>
    /\ UNCHANGED notInstall

in_announce ==
    /\ in_pc = "announce"
    /\ in_pc' = "curl"
    /\ BindProgress(update_progress(T("installing"),
           T("Downloading Ollama installer..."), 25))
    /\ UNCHANGED <<in_ret, in_calls, in_wrote, tmp, config, config_file>>
    /\ UNCHANGED notInstall

\* subprocess.run(['curl', ..., '-o', install_script], check=True, timeout=65)
in_curl ==
    /\ in_pc = "curl"
    /\ \E outcome \in {"ok", "failed", "timeout"}, wrote \in BOOLEAN, size \in ScriptSizes :
        /\ tmp' = IF wrote THEN WriteFile(tmp, install_script, size) ELSE tmp
        /\ in_wrote' = (wrote /\ outcome = "ok")
        /\ CASE outcome = "ok" ->
                  /\ in_pc' = "check"
                  /\ NoProgressWrite
                  /\ UNCHANGED in_ret
             [] outcome = "failed" ->
                  \* CalledProcessError; error_msg is curl's stderr
                  /\ AssignProgress("error",
                         T("Installation failed: ")
                         \o Slice(T("curl: (22) The requested URL returned error: 404"),
                                  InstallErrorMax))
                  /\ in_return("False")
             [] OTHER ->
                  /\ AssignProgress("error",
                         T("Installation timeout - check network connection"))
                  /\ in_return("False")
    /\ UNCHANGED <<in_calls, config, config_file>>
    /\ UNCHANGED notInstall

\* the existence and size checks, the chmod and the next progress write
in_check ==
    /\ in_pc = "check"
    /\ IF install_script \notin DOMAIN tmp
       THEN /\ AssignProgress("error", ErrorText(T("Install script download failed")))
            /\ in_return("False")
            /\ UNCHANGED tmp
       ELSE IF tmp[install_script] > ScriptSizeMax \/ tmp[install_script] < ScriptSizeMin
       THEN /\ tmp' = safe_remove_file(tmp, install_script)
            /\ AssignProgress("error", ErrorText(
                   T("Install script size suspicious: ")
                   \o T(ToString(tmp[install_script])) \o T(" bytes")))
            /\ in_return("False")
       ELSE /\ BindProgress(update_progress(T("installing"),
                   T("Running Ollama installer..."), 40))
            /\ in_pc' = "run"
            /\ UNCHANGED <<in_ret, tmp>>
    /\ UNCHANGED <<in_calls, in_wrote, config, config_file>>
    /\ UNCHANGED notInstall

\* subprocess.run(['sh', install_script], check=True, timeout=600) and, when
\* it succeeded, safe_remove_file(install_script)
in_run ==
    /\ in_pc = "run"
    /\ \E outcome \in {"exit0", "exit1", "timeout"} :
        CASE outcome = "exit0" ->
               /\ tmp' = safe_remove_file(tmp, install_script)
               /\ in_pc' = "probe"
               /\ NoProgressWrite
               /\ UNCHANGED in_ret
          [] outcome = "exit1" ->
               /\ AssignProgress("error",
                      T("Installation failed: ")
                      \o Slice(T("sh: 1: cannot create /usr/local/bin/ollama"),
                               InstallErrorMax))
               /\ in_return("False")
               /\ UNCHANGED tmp
          [] OTHER ->
               /\ AssignProgress("error",
                      T("Installation timeout - check network connection"))
               /\ in_return("False")
               /\ UNCHANGED tmp
    /\ UNCHANGED <<in_calls, in_wrote, config, config_file>>
    /\ UNCHANGED notInstall

\* check_ollama_installed() after the installer ran
in_probe ==
    /\ in_pc = "probe"
    /\ \E found \in BOOLEAN, path \in {"None", "/usr/local/bin/ollama"} :
        IF found
        THEN /\ config' = Put(Put(config, "ollama_installed", TRUE), "ollama_path", path)
             /\ save_config(config')
             /\ BindProgress(update_progress(T("installed"),
                    T("Ollama installed successfully"), 50))
             /\ in_return("True")
        ELSE /\ AssignProgress("error", ErrorText(
                    T("Installation completed but ollama command not found in PATH")))
             /\ in_return("False")
             /\ UNCHANGED <<config, config_file>>
    /\ UNCHANGED <<in_calls, in_wrote, tmp>>
    /\ UNCHANGED notInstall

(***************************************************************************)
(* Shutdown: signal_handler, run on SIGINT or SIGTERM, calls               *)
(* llm_manager.cleanup(), cleanup_old_files() and sys.exit(0).  The other  *)
(* threads go on until the process exits, and end with it.                 *)
(***************************************************************************)
ShutInit ==
    /\ app_pc = "running"
    /\ signals = <<>>

\* the signal arrives; cleanup() looks at the handle and, if the process is
\* alive, calls terminate()
signal_handler ==
    /\ app_pc = "running"
    /\ IF ollama_process = "alive"
       THEN /\ signals' = Append(signals, "SIGTERM")
            /\ app_pc' = "wait"
       ELSE /\ app_pc' = "files"
            /\ UNCHANGED signals
    /\ UNCHANGED <<setupVars, readerVars, rateVars, pipeVars, pullVars, routeVars,
                   installVars, fileVars>>

\* self.ollama_process.wait(timeout=5), and kill() when it raised
cleanup_wait ==
    /\ app_pc = "wait"
    /\ \E exited \in BOOLEAN :
        signals' = IF exited THEN signals ELSE Append(signals, "SIGKILL")
    /\ ollama_process' = "exited"
    /\ app_pc' = "files"
    /\ NoProgressWrite
    /\ UNCHANGED <<config, config_file, setup_lock, spawned, engine_http, catalog, pc,
                   ack, ret, loc>>
    /\ UNCHANGED <<rateVars, pipeVars, pullVars, routeVars, installVars, fileVars>>

\* the folder after cleanup_old_files(): the files whose age is over an hour go
cleanup_old_files(folder) ==
    [name \in { f \in DOMAIN folder : ~(now - mtime[f] > Retention) } |-> folder[name]]

\* cleanup_old_files(), then sys.exit(0)
cleanup_old_files_exit ==
    /\ app_pc = "files"
    /\ uploads' = cleanup_old_files(uploads)
    /\ outputs' = cleanup_old_files(outputs)
    /\ mtime' = Stamp(uploads', outputs')
    /\ app_pc' = "exited"
    /\ pc' = [t \in Threads |-> "dead"]
    /\ NoProgressWrite
    /\ UNCHANGED <<config, config_file, setup_lock, ollama_process, spawned, engine_http,
                   catalog, ack, ret, loc>>
    /\ pp_pc' = [w \in Workers |-> "dead"]
    /\ dl_pc' = [w \in Workers |-> "dead"]
    /\ UNCHANGED <<tokens, pp_calls, pp_loc, dl_loc, written, served>>
    /\ UNCHANGED <<rateVars, pullVars, routeVars, installVars, signals>>

(***************************************************************************)
(* download_model called on its own, with its subprocess and the clock     *)
(* explicit.  The subprocess writes lines to its stdout, closes it, and    *)
(* exits, each when it pleases; the caller blocks in `for line in          *)
(* process.stdout` until a line or the end of the stream arrives, and in   *)
(* process.wait(timeout=60) until the exit or the timeout.  The caller's   *)
(* own steps take no time: the clock moves only while it is blocked.       *)
(***************************************************************************)
RECURSIVE Repeat(_, _)
\* text * k
Repeat(t, k) == IF k <= 0 THEN <<>> ELSE t \o Repeat(t, k - 1)

\* a name validate_model_name accepts: an allowed model, a colon, and a tag,
\* here of angle brackets, that fills the 50 characters
BracketTag == T("phi") \o T(":") \o Repeat(Ch("<"), ModelNameMax - 4)

PullArgs == RequestedModels \cup {None, BracketTag}

PullTimes == {0, 3, 60, 1800, 1801, 1861, 3600}

NoCall == [model_name |-> None, start_time |-> 0, last_update |-> 0, wait_from |-> 0]

PullInit ==
    /\ dm_pc = "idle"
    /\ dm_loc = NoCall
    /\ dm_ret = "none"
    /\ pull_proc = NoProcess
    /\ pull_pipe = [open |-> FALSE, line |-> None, written |-> 0]

notPull == <<setup_lock, ollama_process, spawned, engine_http, pc, ack, ret, loc,
             rateVars, pipeVars, routeVars, installVars, shutVars, fileVars>>

notCaller == <<setupVars, readerVars, rateVars, pipeVars, routeVars, installVars,
               shutVars, fileVars>>

\* return False / return True
dm_return(value) ==
    /\ dm_pc' = "returned"
    /\ dm_ret' = value

\* the call, the default argument, the validation and the first progress write
download_model_unvalidated(model_name) ==
    /\ dm_pc = "idle"
    /\ LET name == IF model_name = None THEN config.model_name ELSE model_name
       IN  /\ BindProgress(update_progress(T("downloading"),
                   T("Downloading model ") \o name \o T("..."), 80))
           /\ dm_pc' = "popen"
           /\ dm_loc' = [dm_loc EXCEPT !.model_name = name]
           /\ UNCHANGED dm_ret
    /\ UNCHANGED <<config, config_file, catalog, pull_proc, pull_pipe>>
    /\ UNCHANGED notPull

download_model(model_name) ==
    /\ dm_pc = "idle"
    /\ LET name == IF model_name = None THEN config.model_name ELSE model_name
       IN  IF model_name = None /\ "model_name" \notin config.keys
           THEN \* KeyError, raised to the caller
                /\ dm_pc' = "raised"
                /\ dm_ret' = "KeyError"
                /\ NoProgressWrite
                /\ UNCHANGED dm_loc
           ELSE IF validate_model_name(name)
           THEN /\ BindProgress(update_progress(T("downloading"),
                        T("Downloading model ") \o name \o T("..."), 80))
                /\ dm_pc' = "popen"
                /\ dm_loc' = [dm_loc EXCEPT !.model_name = name]
                /\ UNCHANGED dm_ret
           ELSE /\ AssignProgress("error", T("Invalid model name"))
                /\ dm_return("False")
                /\ dm_loc' = [dm_loc EXCEPT !.model_name = name]
    /\ UNCHANGED <<config, config_file, catalog, pull_proc, pull_pipe>>
    /\ UNCHANGED notPull

\* Popen(['ollama', 'pull', model_name]); start_time and last_update
dm_popen ==
    /\ dm_pc = "popen"
    /\ \E launched \in BOOLEAN :
        IF launched
        THEN /\ pull_proc' = [state |-> "running", code |-> 0,
                              argv |-> dm_loc.model_name, at |-> now]
             /\ pull_pipe' = [open |-> TRUE, line |-> None, written |-> 0]
             /\ dm_pc' = "read"
             /\ dm_loc' = [dm_loc EXCEPT !.start_time = now, !.last_update = now]
             /\ NoProgressWrite
             /\ UNCHANGED dm_ret
        ELSE /\ AssignProgress("error",
                    ErrorText(T("[Errno 2] No such file or directory: 'ollama'")))
             /\ dm_return("False")
             /\ UNCHANGED <<dm_loc, pull_proc, pull_pipe>>
    /\ UNCHANGED <<config, config_file, catalog>>
    /\ UNCHANGED notPull

\* one iteration of `for line in process.stdout`: a line has arrived
dm_line ==
    /\ dm_pc = "read"
    /\ pull_pipe.line # None
    /\ LET line         == pull_pipe.line
           current_time == now
       IN  /\ pull_pipe' = [pull_pipe EXCEPT !.line = None]
           /\ IF current_time - dm_loc.start_time > PullCeiling
              THEN \* process.kill() and the raise, caught by `except Exception`
                   /\ pull_proc' = [pull_proc EXCEPT !.state = "killed", !.code = 9]
                   /\ AssignProgress("error",
                          ErrorText(T("Download timeout (30 minutes exceeded)")))
                   /\ dm_return("False")
                   /\ UNCHANGED dm_loc
              ELSE /\ IF current_time - dm_loc.last_update > MessageEvery
                      THEN /\ dm_loc' = [dm_loc EXCEPT !.last_update = current_time]
                           /\ IF \/ Contains(Lower(line), T("pulling"))
                                 \/ Contains(Lower(line), T("downloading"))
                              THEN AssignProgress("message",
                                       sanitize_input(Slice(Strip(line), 200), MessageMax))
                              ELSE NoProgressWrite
                      ELSE /\ NoProgressWrite
                           /\ UNCHANGED dm_loc
                   /\ UNCHANGED <<dm_pc, dm_ret, pull_proc>>
    /\ UNCHANGED <<config, config_file, catalog>>
    /\ UNCHANGED notPull

\* the stream ended: the loop is left and process.wait(timeout=60) begins
dm_eof ==
    /\ dm_pc = "read"
    /\ pull_pipe.line = None
    /\ ~pull_pipe.open
    /\ dm_pc' = "wait"
    /\ dm_loc' = [dm_loc EXCEPT !.wait_from = now]
    /\ NoProgressWrite
    /\ UNCHANGED <<dm_ret, pull_proc, pull_pipe, config, config_file, catalog>>
    /\ UNCHANGED notPull

\* process.wait(timeout=60) returns or raises TimeoutExpired; the exit code
dm_wait ==
    /\ dm_pc = "wait"
    /\ IF pull_proc.state = "running"
       THEN /\ now - dm_loc.wait_from >= WaitTimeout
            /\ AssignProgress("error", T("Download timeout"))
            /\ dm_return("False")
            /\ UNCHANGED <<config, config_file, catalog>>
       ELSE IF pull_proc.code = 0
       THEN /\ config' = Put(Put(config, "model_name", dm_loc.model_name),
                               "model_downloaded", TRUE)
            /\ save_config(config')
            /\ catalog' = catalog \cup {dm_loc.model_name}
            /\ BindProgress(update_progress(T("complete"),
                   T("Model ") \o dm_loc.model_name \o T(" ready"), 95))
            /\ dm_return("True")
       ELSE /\ AssignProgress("error",
                   ErrorText(T("Download failed with exit code 1")))
            /\ dm_return("False")
            /\ UNCHANGED <<config, config_file, catalog>>
    /\ UNCHANGED <<dm_loc, pull_proc, pull_pipe>>
    /\ UNCHANGED notPull

\* what the subprocess does is its own affair
pull_writes ==
    /\ pull_proc.state = "running"
    /\ pull_pipe.open
    /\ pull_pipe.line = None
    /\ pull_pipe.written < MaxPullLines
    /\ \E line \in PullLines :
        pull_pipe' = [pull_pipe EXCEPT !.line = line, !.written = @ + 1]
    /\ UNCHANGED <<dm_pc, dm_loc, dm_ret, pull_proc>>
    /\ UNCHANGED notCaller

pull_closes_stdout ==
    /\ pull_proc.state = "running"
    /\ pull_pipe.open
    /\ pull_pipe' = [pull_pipe EXCEPT !.open = FALSE]
    /\ UNCHANGED <<dm_pc, dm_loc, dm_ret, pull_proc>>
    /\ UNCHANGED notCaller

pull_exits ==
    /\ pull_proc.state = "running"
    /\ \E code \in {0, 1} : pull_proc' = [pull_proc EXCEPT !.state = "exited", !.code = code]
    /\ pull_pipe' = [pull_pipe EXCEPT !.open = FALSE]
    /\ UNCHANGED <<dm_pc, dm_loc, dm_ret>>
    /\ UNCHANGED notCaller

\* the caller can do nothing until the subprocess or the clock moves
PullBlocked ==
    \/ dm_pc = "returned"
    \/ dm_pc = "read" /\ pull_pipe.line = None /\ pull_pipe.open
    \/ /\ dm_pc = "wait"
       /\ pull_proc.state = "running"
       /\ now - dm_loc.wait_from < WaitTimeout

pull_time_passes ==
    /\ PullBlocked
    /\ time_passes(PullTimes)

(***************************************************************************)
(* Specifications.                                                         *)
(***************************************************************************)
vars == <<setupVars, readerVars, rateVars, pipeVars, pullVars, routeVars, installVars,
          shutVars, fileVars>>

Init == SetupInit /\ ReaderInit /\ RateInit /\ PipeInit /\ PullInit /\ RouteInit
            /\ InstallInit /\ ShutInit

Sequence(t) ==
    \/ as_validate(t)
    \/ as_lock(t)
    \/ as_probe(t)
    \/ start_entry(t)
    \/ start_spawn(t)
    \/ start_poll(t)
    \/ start_timeout(t)
    \/ as_model_check(t)
    \/ download_model_begin(t)
    \/ download_model_popen(t)
    \/ download_model_line(t)
    \/ download_model_finish(t)
    \/ as_mark(t)

\* the orchestrator: concurrent auto_setup triggers
Next ==
    \/ \E t \in Threads, m \in RequestedModels : auto_setup_route(t, m)
    \/ \E t \in Threads : Sequence(t)
    \/ engine_changes
    \/ process_exits

Spec == Init /\ [][Next]_vars

\* one setup sequence and concurrent GET /setup_status requests
StatusNext ==
    \/ \E m \in RequestedModels : auto_setup_route(1, m)
    \/ Sequence(1)
    \/ engine_changes
    \/ process_exits
    \/ setup_status_begin
    \/ setup_status_read
    \/ setup_status_return

StatusSpec == Init /\ [][StatusNext]_vars

\* the orchestrator stands still in the specifications of the other components
QuietInit == SetupInit /\ engine_http = "down" /\ catalog = {}
                       /\ ReaderInit /\ RateInit /\ PipeInit /\ PullInit /\ RouteInit
            /\ InstallInit /\ ShutInit

\* rate-limited requests of one client, handled one after the other
RateSeqNext ==
    \/ rl_enter_alone(1)
    \/ Request(1)
    \/ time_passes(SeqTimes)

RateSeqSpec == QuietInit /\ [][RateSeqNext]_vars

\* rate-limited requests of one client, handled concurrently
RateNext ==
    \/ \E w \in Workers : rl_enter(w)
    \/ \E w \in Workers : Request(w)
    \/ time_passes(RaceTimes)

RateSpec == QuietInit /\ [][RateNext]_vars

\* concurrent /process_pdf and /download requests
PipelineNext ==
    \/ \E p \in Workers, req \in UploadRequests : process_pdf_save(p, req)
    \/ \E p \in Workers : process_pdf(p)
    \/ \E d \in Workers, filename \in DownloadNames : download_send(d, filename)
    \/ \E d \in Workers : download_close(d)

PipelineSpec == QuietInit /\ [][PipelineNext]_vars

\* one download_model call on its own, its subprocess and the clock
PullNext ==
    \/ \E model_name \in PullArgs : download_model(model_name)
    \/ dm_popen
    \/ dm_line
    \/ dm_eof
    \/ dm_wait
    \/ pull_writes
    \/ pull_closes_stdout
    \/ pull_exits
    \/ pull_time_passes

\* the same over whatever llm_config.json held at startup
QuietBootInit == BootInit /\ engine_http = "down" /\ catalog = {}
                          /\ ReaderInit /\ RateInit /\ PipeInit /\ PullInit /\ RouteInit
            /\ InstallInit /\ ShutInit

PullSpec == QuietBootInit /\ [][PullNext]_vars

\* the operations that read or write the configuration, from any startup file
ConfigNext ==
    \/ \E model_name \in SetModelNames : set_model(model_name)
    \/ \E model_name \in PullArgs : download_model(model_name)
    \/ dm_popen
    \/ dm_line
    \/ dm_eof
    \/ dm_wait
    \/ pull_writes
    \/ pull_exits
    \/ setup_status_begin
    \/ setup_status_read
    \/ setup_status_return

ConfigSpec == QuietBootInit /\ [][ConfigNext]_vars

\* install_ollama calls, one after the other
InstallNext ==
    \/ install_ollama
    \/ in_announce
    \/ in_curl
    \/ in_check
    \/ in_run
    \/ in_probe

InstallSpec == QuietInit /\ [][InstallNext]_vars

\* one setup sequence, the engine, and a shutdown signal at any moment
ShutdownNext ==
    \/ \E m \in RequestedModels : auto_setup_route(1, m)
    \/ Sequence(1)
    \/ engine_changes
    \/ process_exits
    \/ signal_handler
    \/ cleanup_wait
    \/ cleanup_old_files_exit

ShutdownSpec == Init /\ [][ShutdownNext]_vars

\* setup sequences in background threads while /setup_status is polled; the
\* engine's endpoint stays as it was at startup
BackgroundNext ==
    \/ \E t \in Threads, m \in RequestedModels : auto_setup_route(t, m)
    \/ \E t \in Threads : Sequence(t)
    \/ setup_status_begin
    \/ setup_status_read
    \/ setup_status_return

BackgroundSpec == Init /\ [][BackgroundNext]_vars

\* the orchestrator with threads that keep running: a thread that can take a
\* step of its sequence eventually takes one; the engine owes nothing
LockSpec == Init /\ [][Next]_vars /\ \A t \in Threads : WF_vars(Sequence(t))

\* the orchestrator and the /set_model route: every operation that writes the
\* configuration after startup
ManagerNext ==
    \/ \E t \in Threads, m \in RequestedModels : auto_setup_route(t, m)
    \/ \E t \in Threads : Sequence(t)
    \/ \E model_name \in SetModelNames : set_model(model_name)
    \/ engine_changes
    \/ process_exits

ManagerSpec == Init /\ [][ManagerNext]_vars

\* the instants at which the age of a file is looked at
SweepTimes == {0, 3600, 3601}

\* the service at work: uploads are processed, artifacts are or are not
\* retrieved, the clock runs, and a shutdown signal may arrive
ArtifactNext ==
    \/ \E p \in Workers, req \in UploadRequests : process_pdf_save(p, req)
    \/ \E p \in Workers : process_pdf(p)
    \/ \E d \in Workers, filename \in DownloadNames : download_send(d, filename)
    \/ \E d \in Workers : download_close(d)
    \/ time_passes(SweepTimes)
    \/ signal_handler
    \/ cleanup_old_files_exit

\* every request that was taken up is handled to its end, the clock does not
\* stop, and a shutdown that began is completed; no client has to send a
\* request and no signal has to arrive
ArtifactSpec == QuietInit /\ [][ArtifactNext]_vars
                    /\ WF_vars(\E p \in Workers : process_pdf(p))
                    /\ WF_vars(\E d \in Workers : download_close(d))
                    /\ WF_vars(time_passes(SweepTimes))
                    /\ WF_vars(cleanup_old_files_exit)

(***************************************************************************)
(* Properties of the orchestrator.                                         *)
(***************************************************************************)
InSequence(t) == pc[t] \in CriticalPcs

\* C1: the steps of two setup sequences never interleave: while one sequence is
\* between its installation probe and its return, no other sequence is at any
\* step from the probe to the setup_complete write, and the lock is held by the
\* sequence that is there.
C1_NoInterleaving ==
    \A t, u \in Threads :
        InSequence(t) /\ InSequence(u) => t = u /\ setup_lock = t

\* a second trigger waits at the lock while a sequence is polling the engine
C1_Witness ==
    \E t, u \in Threads :
        t # u /\ pc[t] = "poll" /\ loc[t].i > 0 /\ pc[u] = "lock"

\* C2, as claimed: a trigger that arrives while a sequence is in progress runs no
\* sequence of its own (it does nothing, or it is rejected).
C2_SecondRunsNothing ==
    \A t \in Threads : loc[t].during # {} => ~InSequence(t)

\* C2, amended: a trigger that arrives while a sequence is in progress is
\* acknowledged as started like any other, and its own sequence runs only after
\* every sequence that was in progress at its arrival has returned.
C2_SecondQueued ==
    \A t \in Threads :
        loc[t].during # {} =>
            /\ ack[t] = "started"
            /\ InSequence(t) => \A u \in loc[t].during : pc[u] = "done"

\* the second trigger's sequence is running: it arrived during the first's
C2_Witness ==
    \E t \in Threads :
        loc[t].during # {} /\ pc[t] = "model_check" /\ "probe" \in loc[t].trace

C8_StartIdempotent ==
    \A t \in Threads :
        "entered_alive" \in loc[t].trace =>
            /\ pc[t] \in {"model_check", "download", "pull_popen", "pull_read", "mark"}
            /\ loc[t].trace \cap {"pkill", "spawn"} = {}
            /\ spawned = loc[t].s0
            /\ ollama_process # "None"

\* a second sequence found the first one's engine process alive
C8_Witness ==
    \E t \in Threads :
        /\ "entered_alive" \in loc[t].trace
        /\ pc[t] = "model_check"
        /\ spawned = 1
        /\ ollama_process = "alive"

Returns(t) == pc[t] # "done" /\ pc'[t] = "done"

FailsAtStart(t) ==
    /\ ret'[t] = "False"
    /\ pc[t] \in {"spawn", "poll"}
    /\ loc[t].trace \cap {"model_check", "pull"} = {}
    /\ config'.setup_complete = config.setup_complete
    /\ setup_progress'.stage = T("starting")
    /\ \A is200 \in BOOLEAN : ~get_status(engine_http = "up" /\ is200).ready'

\* C9, as claimed: a sequence during which the engine's endpoint never answered
\* returns failure from the start-service step, with no model check or pull,
\* setup_complete untouched, stage "starting" and status().ready false.
C9_UnreachableFailsAtStart ==
    [][\A t \in Threads :
          Returns(t) /\ InSequence(t) /\ ~loc[t].up => FailsAtStart(t)]_vars

\* C9, amended: the same, for a sequence whose installation probe succeeded and
\* that found no live engine process handle when it reached the start step.
C9_UnreachableFreshStartFails ==
    [][\A t \in Threads :
          Returns(t) /\ InSequence(t) /\ ~loc[t].up
                     /\ "entered_dead" \in loc[t].trace => FailsAtStart(t)]_vars

\* thirty polls went unanswered: the sequence is about to return
C9_Witness ==
    \E t \in Threads :
        /\ pc[t] = "poll"
        /\ loc[t].i = StartPolls
        /\ ~loc[t].up
        /\ "entered_dead" \in loc[t].trace
        /\ ollama_process = "alive"

\* C10, as claimed: whenever auto_setup returns failure, setup_progress.error is
\* not None at that moment.
C10_FailureSetsError ==
    [][\A t \in Threads :
          Returns(t) /\ ret'[t] = "False" => setup_progress'.error # None]_vars


(***************************************************************************)
(* Properties of the rate limiter.                                         *)
(***************************************************************************)
\* C3, as claimed: under concurrent requests of one client, no RATE_WINDOW-long
\* interval holds the timestamps of more than RATE_LIMIT admitted requests.
C3_WindowNeverExceeded ==
    \A k \in 1..Len(admitted) :
        Cardinality({j \in 1..Len(admitted) :
                        admitted[j] >= admitted[k]
                        /\ admitted[j] < admitted[k] + RATE_WINDOW}) <= RATE_LIMIT

\* C4: for requests handled one after the other, a request is rejected exactly
\* when RATE_LIMIT requests admitted before it have timestamps less than
\* RATE_WINDOW old.
C4_RejectedIffTenRecent ==
    \A w \in Workers :
        rl_last[w].verdict # "none" =>
            (rl_last[w].verdict = "rejected" <=> rl_last[w].recent >= RATE_LIMIT)

\* ten requests were admitted, the eleventh was rejected inside the window, and a
\* later one was admitted once the window of the first had passed
C4_Witness ==
    /\ Len(admitted) = RATE_LIMIT + 1
    /\ rl_calls = RATE_LIMIT + 2
    /\ admitted[RATE_LIMIT + 1] - admitted[1] >= RATE_WINDOW
    /\ \E w \in Workers : rl_last[w].verdict = "admitted"

C7_ExactContentOneShot ==
    /\ \A d \in Workers :
          dl_pc[d] = "sending" =>
              /\ dl_loc[d].filepath \in DOMAIN written
              /\ dl_loc[d].answer.body = written[dl_loc[d].filepath]
    /\ \A name \in DOMAIN served : served[name] <= 1

(***************************************************************************)
(* The order of the steps of auto_setup.                                   *)
(***************************************************************************)
StartPcs == {"start", "spawn", "poll"}

ModelPcs == {"model_check", "download", "pull_popen", "pull_read"}

\* C12: auto_setup runs validate, probe, start, model check or pull, mark in
\* that order, each step only after every earlier one succeeded;
\* setup_complete becomes true only in the mark step of a sequence whose
\* validation, probe, start and model step all succeeded; a failed probe
\* returns False at once, with no service started and no pull
C12_StepsInOrder ==
    /\ [](\A t \in Threads :
            /\ pc[t] \in {"lock"} \cup CriticalPcs => "validated" \in loc[t].trace
            /\ pc[t] \in StartPcs \cup ModelPcs \cup {"mark"} => "probe" \in loc[t].trace
            /\ pc[t] \in ModelPcs \cup {"mark"} => "started" \in loc[t].trace
            /\ pc[t] = "mark" => "model_ready" \in loc[t].trace
            /\ loc[t].trace \cap {"entered_alive", "entered_dead", "pkill", "spawn"} # {}
                   => "probe" \in loc[t].trace
            /\ loc[t].trace \cap {"model_check", "pull"} # {} => "started" \in loc[t].trace)
    /\ [][(config'.setup_complete /\ ~config.setup_complete) =>
              \E t \in Threads :
                  /\ pc[t] = "mark"
                  /\ {"validated", "probe", "started", "model_ready"} \subseteq loc[t].trace
                  /\ config_file'.content.setup_complete]_vars
    /\ [][\A t \in Threads :
              (pc[t] = "probe" /\ pc'[t] # "probe" /\ "probe" \notin loc'[t].trace) =>
                  /\ Returns(t)
                  /\ ret'[t] = "False"
                  /\ spawned' = spawned
                  /\ ollama_process' = ollama_process]_vars

C12_Witness ==
    \E t \in Threads :
        /\ pc[t] = "done"
        /\ ret[t] = "True"
        /\ config.setup_complete
        /\ config_file.content.setup_complete
        /\ spawned >= 1

C11_CeilingEnforced ==
    (pull_proc.state = "running" /\ now - pull_proc.at > PullCeiling) => ~PullBlocked

\* C19: no pull subprocess is launched with an invalid identifier, and a
\* call whose identifier (given or defaulted) is invalid has returned False
\* with nothing spawned
C19_NoLaunchWithInvalidId ==
    /\ pull_proc.state # "none" => validate_model_name(pull_proc.argv)
    /\ (dm_pc # "idle" /\ ~validate_model_name(dm_loc.model_name))
           => /\ \/ dm_pc = "returned" /\ dm_ret = "False"
                 \/ dm_pc = "raised" /\ dm_ret = "KeyError"
              /\ pull_proc = NoProcess

C19_Witness ==
    /\ dm_pc = "returned"
    /\ dm_loc.model_name \in RequestedModels
    /\ ~validate_model_name(dm_loc.model_name)
    /\ dm_ret = "False"
    /\ pull_proc.state = "none"

(***************************************************************************)
(* The configuration.                                                      *)
(***************************************************************************)
\* C14: the configuration always has a model_name and it passes
\* validate_model_name
C14_ModelNameValid ==
    /\ "model_name" \in config.keys
    /\ validate_model_name(config.model_name)

\* C15: whatever llm_config.json held, the configuration loaded from it has
\* all five keys, and no /setup_status request fails
C15_LoadedConfigComplete ==
    /\ config.keys = Keys
    /\ rd_pc # "failed"

(***************************************************************************)
(* The installer.                                                          *)
(***************************************************************************)
\* C16: when install_ollama has returned from a call in which the install
\* script was written, the script is no longer in /tmp
C16_ScriptRemoved ==
    (in_pc = "returned" /\ in_wrote) => install_script \notin DOMAIN tmp


(***************************************************************************)
(* Shutdown.                                                               *)
(***************************************************************************)
\* C17: when the process has exited, no subprocess it launched is still
\* alive: neither the engine process nor a model pull
C17_NoSubprocessSurvives ==
    app_pc = "exited" => ollama_process # "alive" /\ pull_proc.state # "running"

(***************************************************************************)
(* Output files.                                                           *)
(***************************************************************************)
\* the request of worker p passed the name check, the size check, the
\* extraction and the query
GatesPassed(p) ==
    /\ ~pp_loc[p].raised
    /\ pp_loc[p].llm_response # None
    /\ EndsWith(Lower(pp_loc[p].filename), Ch(".") \o T("pdf"))
    /\ pp_loc[p].filepath \in DOMAIN uploads
    /\ uploads[pp_loc[p].filepath].size = "fits"
    /\ uploads[pp_loc[p].filepath].pdf = "text"

\* C18: an output file appears only in the write step of a request that
\* passed every check; a request answers 200 only with the file it wrote,
\* so one that failed the name check, the size check, the extraction or the
\* query answers an error and leaves the output files as they were
C18_OutputOnlyAfterGates ==
    /\ [][DOMAIN outputs' \ DOMAIN outputs # {} =>
              \E p \in Workers : pp_pc[p] = "write" /\ pp_pc'[p] = "finally"
                                 /\ GatesPassed(p)]_vars
    /\ [][\A p \in Workers :
              (pp_pc[p] \in {"idle", "size", "extract", "query", "except"}
               /\ pp_pc'[p] # pp_pc[p]) =>
                  /\ outputs' = outputs
                  /\ pp_pc'[p] = "returned" => pp_loc'[p].answer.code \in {400, 500}]_vars
    /\ [][\A p \in Workers :
              (pp_pc[p] # "returned" /\ pp_pc'[p] = "returned"
               /\ pp_loc'[p].answer.code = 200) =>
                  /\ pp_pc[p] = "finally"
                  /\ pp_loc'[p].answer.body \in DOMAIN written]_vars

\* one request produced an output file; a later one failed before its write,
\* was answered 500, and the output files are the same
C18_Witness ==
    \E p \in Workers :
        /\ pp_pc[p] = "returned"
        /\ pp_loc[p].answer.code = 500
        /\ tokens = 3
        /\ DOMAIN outputs = DOMAIN written
        /\ DOMAIN written # {}

(***************************************************************************)
(* Setup in the background.                                                *)
(***************************************************************************)
\* C20: a POST /auto_setup can be answered in every state, whoever holds the
\* setup lock, and its answer `started` is given in the step that starts the
\* thread; a GET /setup_status can begin and go on in every state, and no
\* step of it touches the setup lock
C20_SetupInBackground ==
    /\ [](\A t \in Threads :
            (pc[t] = "unborn" /\ \A u \in Threads : u < t => pc[u] # "unborn") =>
                \A m \in RequestedModels : ENABLED auto_setup_route(t, m))
    /\ [](rd_pc \in {"idle", "returned", "failed"} => ENABLED setup_status_begin)
    /\ [](rd_pc = "reading" => ENABLED (setup_status_read \/ setup_status_return))
    /\ [][\A t \in Threads :
              (pc[t] = "unborn" /\ pc'[t] = "validate") =>
                  ack'[t] = "started" /\ setup_lock' = setup_lock]_vars
    /\ [][(rd_pc' # rd_pc \/ rd_k' # rd_k) => setup_lock' = setup_lock]_vars

\* a sequence is waiting for the engine to answer; a second request was
\* answered `started` and its thread waits for the lock; a /setup_status
\* request that saw the first sequence's progress has returned
C20_Witness ==
    \E t, u \in Threads :
        /\ pc[t] = "poll"
        /\ setup_lock = t
        /\ ack[u] = "started"
        /\ pc[u] = "lock"
        /\ rd_pc = "returned"
        /\ rd_snap.stage = T("starting")

(***************************************************************************)
(* Properties of the output folder over time.                              *)
(***************************************************************************)
\* the files in OUTPUT_FOLDER written by the k-th token drawn
Artifact(k) == { name \in DOMAIN outputs : StartsWith(name, token_hex(k)) }

\* C21: every output artifact is eventually deleted while the service keeps
\* running: one that nobody retrieves is purged once it is older than the
\* retention window
C21_ArtifactEventuallyPurged ==
    \A k \in 1..MaxRequests :
        (\E name \in Artifact(k) : now - mtime[name] > Retention)
            ~> (Artifact(k) = {} \/ app_pc # "running")

(***************************************************************************)
(* Properties of the progress record and the configuration flags.          *)
(***************************************************************************)
\* C22, as claimed: the step by which auto_setup returns failure changes only
\* the error field of setup_progress: stage and progress are what the last
\* update_progress before the failure made them.
C22_FailureKeepsStage ==
    [][\A t \in Threads :
          Returns(t) /\ ret'[t] = "False" =>
              /\ setup_progress'.stage = setup_progress.stage
              /\ setup_progress'.progress = setup_progress.progress]_vars

\* C23, as claimed: in every reachable state the progress record is within its
\* bounds: progress is in 0..100, stage has at most 50 characters and message
\* at most 200, whatever was given to update_progress and whatever the pull
\* subprocess wrote.
C23_ProgressWithinBounds ==
    /\ setup_progress.progress \in 0..100
    /\ TextLen(setup_progress.stage) <= StageMax
    /\ TextLen(setup_progress.message) <= MessageMax

(***************************************************************************)
(* Properties of start_ollama_service.                                     *)
(***************************************************************************)
\* thread t leaves the polling loop of start_ollama_service
LeavesPolling(t) == pc[t] = "poll" /\ pc'[t] # "poll"

\* the error recorded for an engine process that died: a slice of its stderr
CrashError(error) ==
    /\ error # None
    /\ TextLen(error) <= ErrorMax
    /\ \E stderr \in EngineStderr :
          error = ErrorText(T("Ollama service failed to start: ") \o Slice(stderr, 200))

\* C24, as claimed: when the engine process that start_ollama_service launched
\* has exited before any health check succeeded, the call returns failure and
\* setup_progress.error holds a slice of at most 200 characters of the process's
\* error output; and a call that launched a process returns success only on a
\* health check that succeeded.
C24_CrashIsReported ==
    [][\A t \in Threads :
          LeavesPolling(t) =>
              /\ ollama_process = "exited" =>
                    /\ pc'[t] = "done" /\ ret'[t] = "False"
                    /\ CrashError(setup_progress'.error)
              /\ pc'[t] = "model_check" => engine_http = "up"]_vars

\* C25, as claimed: when auto_setup(m) returns success, llm_config.json names
\* the model that was set up: model_name is m and model_downloaded is true,
\* whether m was pulled or found in the engine's catalog, and whatever
\* /set_model requests were made meanwhile.
C25_ConfigNamesModel ==
    [][\A t \in Threads :
          Returns(t) /\ ret'[t] = "True" =>
              /\ config_file'.present
              /\ config_file'.content.model_name = loc[t].arg
              /\ config_file'.content.model_downloaded]_vars

\* C26: whenever setup_progress.progress is 100, setup_complete is true in the
\* configuration: 100 is written only by the completion step of auto_setup,
\* after it has set setup_complete, and nothing resets setup_complete.
C26_HundredMeansComplete ==
    setup_progress.progress = 100 => config.setup_complete

\* a sequence has completed, progress is 100, and a later /set_model request
\* has been answered
C26_Witness ==
    /\ setup_progress.progress = 100
    /\ \E t \in Threads : ret[t] = "True"
    /\ sm_resp = "200 success"
    /\ config.model_name # DefaultConfig.model_name

Flags == {"ollama_installed", "model_downloaded", "setup_complete"}

\* C27: no step changes ollama_installed, model_downloaded or setup_complete
\* from true to false, and a step of /set_model changes nothing of the
\* configuration but model_name.
C27_FlagsMonotone ==
    [][/\ \A f \in Flags : config[f] => config'[f]
       /\ (pc' = pc /\ config' # config) =>
              config' = [config EXCEPT !.model_name = config'.model_name]]_vars

\* all three flags are true, and the latest sequence failed at the start step
C27_Witness ==
    /\ \A f \in Flags : config[f]
    /\ \A t \in Threads : pc[t] = "done"
    /\ setup_progress.stage = T("starting")
    /\ setup_progress.error # None
    /\ sm_resp = "200 success"

(***************************************************************************)
(* Properties of the setup lock.                                           *)
(***************************************************************************)
\* C28: the lock is released on every way out of the critical section of
\* auto_setup: it is held only by a thread inside the section, so it is free
\* whenever no sequence is executing, and every thread waiting for it
\* eventually acquires it.
C28_LockReleased ==
    /\ [](setup_lock # 0 => pc[setup_lock] \in CriticalPcs)
    /\ []((\A t \in Threads : pc[t] \notin CriticalPcs) => setup_lock = 0)
    /\ \A t \in Threads : (pc[t] = "lock") ~> (setup_lock = t)

\* a thread that was triggered while another held the lock has acquired it
\* after that other returned failure
C28_Witness ==
    \E t, u \in Threads :
        /\ u # t
        /\ setup_lock = t
        /\ u \in loc[t].during
        /\ pc[u] = "done" /\ ret[u] = "False"

=============================================================================
